---- MODULE Spec2Model ----
(***************************************************************************)
(* A model of the model-gateway layer of the Tribe AI engine:              *)
(*   - OpenRouterAdapter: the retry loop of its four operations and        *)
(*     handle_error (adapters/openrouter_adapter.py);                      *)
(*   - the result caches of MatchingService / PersonalityService and of    *)
(*     RecommendationService (services/*.py);                              *)
(*   - extract_json_from_response with clean_text_data (utils/*.py).       *)
(* Each part has its own specification over the shared variables; the      *)
(* variables of the other parts stay at their initial values.              *)
(***************************************************************************)
EXTENDS Integers, Sequences, FiniteSets, TLC

VARIABLES
    \* ---- OpenRouterAdapter ----
    max_retries,    \* self.max_retries
    retry_delay,    \* self.retry_delay (in delay units)
    timeout,        \* self.timeout
    pc,             \* position of the one call in progress
    operation,      \* which of the four operations is running
    model_name,     \* the model_name argument (None when omitted)
    retries,        \* local variable retries
    posts,          \* history: number of session.post calls of this call
    sleeps,         \* history: the delays passed to time.sleep / asyncio.sleep
    last_error,     \* the exception caught by the latest attempt
    all_retryable,  \* history: every failed attempt so far was a retryable kind
    raised,         \* the exception that left the operation
    messages,       \* the messages argument of a chat operation (its shape)
    payload,        \* the JSON body of the POSTs of this call
    elapsed,        \* history: seconds since the call started (a lower bound)
    answers,        \* history: the last 2xx answer of this call; only bad ones so far?
    result,         \* the value the operation returned
    \* ---- MatchingService / PersonalityService ----
    service,        \* which of the two services this is
    cache_enabled,  \* self._cache_enabled
    cache_ttl,      \* self._cache_ttl
    cache,          \* self._cache: key -> entry
    now,            \* time.time()
    model_calls,    \* history: calls made to the model/adapter
    stored,         \* history: key -> when and what the last computed result was
    last_call,      \* history: the last completed service operation
    \* ---- RecommendationService ----
    rec_cache,      \* self._cache: key -> recommendations
    rec_created,    \* history: key -> time the entry was stored
    rec_owner,      \* history: key -> tribe data of the request that stored the entry
    rec_stats,      \* self._stats
    rec_last,       \* history: the last completed recommend_* operation
    rec_done,       \* history: per type, the calls returned and the model calls made
    \* ---- extract_json_from_response ----
    response,       \* the argument
    extracted,      \* the outcome of the call
    \* ---- prepare_parameters ----
    parameters,     \* the parameters argument
    params_model,   \* the model_name argument
    prepared,       \* prepare_parameters(parameters, model_name)
    prepared_again, \* prepare_parameters(prepared, model_name)
    \* ---- batch operations ----
    batch_kind,     \* which batch operation is running
    batch_inputs,   \* its list of inputs
    batch_state,    \* per input: "new", "waiting" (the model is working) or "done"
    batch_results,  \* per input: the result of its processing
    batch_cache,    \* RecommendationService._cache, by tribe id
    batch_out,      \* the list the batch operation returned
    \* ---- lifecycle of an adapter (OpenRouterAdapter or MockModelAdapter) ----
    adapter_class,  \* the class of the adapter
    session,        \* self.session: the requests.Session, open or closed
    async_session,  \* self.async_session: None, or the aiohttp.ClientSession
    scope,          \* the with / async with block the adapter is in
    exit_rec,       \* history: the last __exit__ / __aexit__
    close_rec,      \* history: the last close() / async_close()
    tasks,          \* the async operations in progress on the event loop
    sessions_created, \* history: aiohttp.ClientSession objects created
    ensured,        \* history: calls of ensure_async_session
    mock_responses, \* MockModelAdapter._responses (its keys)
    mock_should_fail, \* MockModelAdapter._should_fail
    mock_exception, \* MockModelAdapter._failure_exception
    mock_last,      \* history: the last generate_* call on the mock
    mode_calls,     \* history: the set_failure_mode calls, in order
    \* ---- MatchingModel ----
    mm_type,        \* which operation is called
    mm_reply,       \* what the adapter's generate_text does
    mm_result,      \* the outcome of the operation
    ms_result,      \* the outcome of the MatchingService method that called it
    \* ---- get_cached_result as a function of the cache ----
    looked,         \* history: the last get_cached_result call
    \* ---- a model operation over generate_chat_completion ----
    chat,           \* the assistant content the provider gives, and the call made
    \* ---- prepare_messages ----
    pm              \* the caller's list before and after the call, and the list returned

avars == <<max_retries, retry_delay, timeout, pc, operation, model_name, retries,
           posts, sleeps, last_error, all_retryable, raised, messages, payload,
           elapsed, answers, result>>
cvars == <<service, cache_enabled, cache_ttl, cache, now, model_calls, stored, last_call>>
rvars == <<rec_cache, rec_created, rec_owner, rec_stats, rec_last, rec_done>>
xvars == <<response, extracted>>
pvars == <<parameters, params_model, prepared, prepared_again>>
bvars == <<batch_kind, batch_inputs, batch_state, batch_results, batch_cache, batch_out>>
lvars == <<adapter_class, session, async_session, scope, exit_rec, close_rec, tasks,
           sessions_created, ensured, mock_responses, mock_should_fail, mock_exception,
           mock_last, mode_calls>>
mvars == <<mm_type, mm_reply, mm_result, ms_result>>
\* the parts added to the frame of every action of another part
ovars == <<lvars, mvars, looked, chat, pm>>
vars == <<avars, cvars, rvars, xvars, pvars, bvars, ovars>>

(***************************************************************************)
(* Bounds of the model.                                                    *)
(***************************************************************************)
MaxRetries == 2      \* max_retries ranges over 0..MaxRetries
MaxDelay == 2        \* retry_delay ranges over 1..MaxDelay
MaxHeaderLen == 2    \* length of a retry-after header value
MaxTTL == 2          \* cache_ttl ranges over 1..MaxTTL
MaxClock == 4        \* time.time() ranges over 0..MaxClock
MaxCalls == 3        \* service operations per behaviour
MaxText == 3         \* length of the enumerated model replies

(***************************************************************************)
(* Python values.                                                          *)
(***************************************************************************)
None == "None"
MODEL_TIMEOUT == 30
Timeouts == {MODEL_TIMEOUT, 10}
ModelNames == {None, "m1"}

SyncOperations == {"generate_text", "generate_chat_completion"}
AsyncOperations == {"async_generate_text", "async_generate_chat_completion"}
Operations == SyncOperations \cup AsyncOperations
TextOperations == {"generate_text", "async_generate_text"}

\* the model_name argument passed on as it is
OrDefaultRaw(m) == m
\* model_name or "default"
OrDefault(m) == IF m = None THEN "default" ELSE m

\* config/settings.py: the configured default model.
DEFAULT_MODEL == "openai/gpt-4"
\* model = model_name or DEFAULT_MODEL, as prepare_prompt, prepare_messages and
\* prepare_parameters compute it.
ModelOrDefault(m) == IF m = None THEN DEFAULT_MODEL ELSE m

\* The messages argument: a list of role/content dicts, the empty list, a value
\* that is no list, a list with an entry that is no dict or lacks a key. A text
\* operation has no such argument.
MessageShapes == {"valid", "empty", "not_a_list", "malformed"}
NoMessages == "none"
MessagesOf(op) == IF op \in {"generate_chat_completion", "async_generate_chat_completion"}
                  THEN MessageShapes ELSE {NoMessages}
\* prepare_messages raises ValueError: the isinstance test and the loop over
\* the entries; an empty list passes both.
PrepareMessagesRaises(msgs) == msgs \in {"not_a_list", "malformed"}

\* payload = {"model": model_name, "prompt" / "messages": ..., **prepared_params}
Payload(m, msgs) == [model |-> m, messages |-> msgs]
NoPayload == Payload("", "")

\* The text of choices[0] in a 2xx body, and the dict format_chat_response builds.
Texts == {"t1", "t2"}
Formatted(text) == <<"message", text>>
NoResult == <<>>

(***************************************************************************)
(* What the provider can answer, and the exceptions an attempt can raise.  *)
(***************************************************************************)
HeaderChars == {"3", "0", "x"}
HeaderValues == UNION {[1..n -> HeaderChars] : n \in 0..MaxHeaderLen}
\* response.headers.get('retry-after'): absent, or a string
Headers == {[present |-> FALSE, value |-> <<>>]}
           \cup {[present |-> TRUE, value |-> v] : v \in HeaderValues}
NoHeader == [present |-> FALSE, value |-> <<>>]

\* The JSON body of an error response, as handle_error reads it.
BodyNone == [parsable |-> FALSE, has_error |-> FALSE, has_type |-> FALSE,
             type |-> "", has_message |-> FALSE, message |-> ""]
BodyNoError == [BodyNone EXCEPT !.parsable = TRUE]
BodyOtherType == [BodyNoError EXCEPT !.has_error = TRUE, !.has_type = TRUE,
                                     !.type = "invalid_request_error"]
BodyFilterNoMessage == [BodyOtherType EXCEPT !.type = "content_filter"]
BodyFilter == [BodyFilterNoMessage EXCEPT !.has_message = TRUE,
                                          !.message = "Content violates usage policies"]
Bodies == {BodyNone, BodyNoError, BodyOtherType, BodyFilterNoMessage, BodyFilter}

Statuses == {400, 401, 403, 429, 500}

Exc(cls) == [cls |-> cls, status |-> 0, header |-> NoHeader, body |-> BodyNone]
NoError == Exc("")
\* Header and body are varied where handle_error reads them (429 and 400).
HttpExcs(cls) ==
    {[cls |-> cls, status |-> s, header |-> NoHeader, body |-> BodyNone] :
        s \in Statuses \ {400, 429}}
    \cup {[cls |-> cls, status |-> 429, header |-> h, body |-> BodyNone] : h \in Headers}
    \cup {[cls |-> cls, status |-> 400, header |-> NoHeader, body |-> b] : b \in Bodies}

\* requests: raise_for_status -> HTTPError(response=...); Timeout; ConnectionError;
\* ConnectTimeout is both a ConnectionError and a Timeout.
SyncErrors ==
    {Exc("requests.Timeout"), Exc("requests.ConnectTimeout"),
     Exc("requests.ConnectionError")}
    \cup HttpExcs("requests.HTTPError")
\* aiohttp: raise_for_status -> ClientResponseError(status=..., headers=...).
AsyncErrors ==
    {Exc("asyncio.TimeoutError"), Exc("aiohttp.ClientConnectionError")}
    \cup HttpExcs("aiohttp.ClientResponseError")
\* Raised inside the try block after a 2xx answer.
InvalidFormat == Exc("ModelAdapterError")
IndexErr == Exc("IndexError")

\* The shape of a 2xx body: with choices, with an empty choices list, without.
OkBodies == {"choices", "empty_choices", "no_choices"}
\* no attempt of the call has been answered 2xx
NoAnswers == [last |-> "none", only_bad |-> TRUE]

(***************************************************************************)
(* The error taxonomy (adapters/model_adapter.py) and handle_error.        *)
(***************************************************************************)
\* A Python value that is None, an int or a str (retry_after).
PyNone == [t |-> "None", n |-> 0, s |-> <<>>]
PyInt(i) == [t |-> "int", n |-> i, s |-> <<>>]
PyStr(v) == [t |-> "str", n |-> 0, s |-> v]

NoReason == "None"
\* ModelAdapterError and its subclasses: the fields their constructors set.
ModelError(cls, op, m, to, ra, fr) ==
    [cls |-> cls, operation |-> op, model_name |-> m, timeout |-> to,
     retry_after |-> ra, filter_reason |-> fr]
NoRaised == ModelError("", "", "", 0, PyNone, NoReason)
ModelAdapterError(op, m) == ModelError("ModelAdapterError", op, m, 0, PyNone, NoReason)
ModelTimeoutError(op, m, to) == ModelError("ModelTimeoutError", op, m, to, PyNone, NoReason)
ModelAuthenticationError(op, m) ==
    ModelError("ModelAuthenticationError", op, m, 0, PyNone, NoReason)
ModelRateLimitError(op, m, ra) == ModelError("ModelRateLimitError", op, m, 0, ra, NoReason)
ModelContentFilterError(op, m, fr) ==
    ModelError("ModelContentFilterError", op, m, 0, PyNone, fr)

\* isinstance(error, (requests.Timeout, asyncio.TimeoutError)); the third test
\* (module aiohttp.client_exceptions, class ClientTimeout) matches no exception.
IsTimeoutError(e) ==
    e.cls \in {"requests.Timeout", "requests.ConnectTimeout", "asyncio.TimeoutError"}
\* isinstance(error, (requests.ConnectionError, aiohttp.ClientConnectionError))
IsConnectionError(e) ==
    e.cls \in {"requests.ConnectionError", "requests.ConnectTimeout",
               "aiohttp.ClientConnectionError"}
\* hasattr(error, 'response') with a response object: requests.HTTPError only;
\* aiohttp.ClientResponseError has .status and .headers and no .response.
HasResponse(e) == e.cls = "requests.HTTPError"
IsHTTPError(e) ==
    e.cls \in {"requests.HTTPError", "aiohttp.ClientResponseError"} \/ HasResponse(e)
\* getattr(error, 'status_code', None) is None for both libraries; then
\* error.response.status_code when there is a response. 0 stands for None.
StatusCode(e) == IF HasResponse(e) THEN e.status ELSE 0

\* int(s) for a str of the header alphabet: the digits' value, or ValueError.
IsIntStr(s) == Len(s) > 0 /\ \A i \in 1..Len(s) : s[i] \in {"0", "3"}
Digit(c) == IF c = "3" THEN 3 ELSE 0
RECURSIVE IntOf(_)
IntOf(s) == IF s = <<>> THEN 0
            ELSE 10 * IntOf(SubSeq(s, 1, Len(s) - 1)) + Digit(s[Len(s)])

\* Lines 424-431: the retry_after handed to ModelRateLimitError.
RetryAfter(e) ==
    IF ~HasResponse(e) THEN PyNone
    ELSE IF ~e.header.present THEN PyNone          \* headers.get -> None
    ELSE IF e.header.value = <<>> THEN PyStr(<<>>) \* '' is falsy: kept as it is
    ELSE IF IsIntStr(e.header.value) THEN PyInt(IntOf(e.header.value))
    ELSE PyNone                                    \* ValueError

\* Lines 439-444: the raise of ModelContentFilterError is reached.
ContentFilterRaised(e) ==
    /\ HasResponse(e)
    /\ e.body.parsable
    /\ e.body.has_error /\ e.body.has_type
    /\ e.body.type = "content_filter"
\* response_data['error'].get('message', 'Content filtered')
FilterReason(e) == IF e.body.has_message THEN e.body.message ELSE "Content filtered"
\* Lines 449-450: `except Exception: pass` encloses the raise above, and
\* ModelContentFilterError is an Exception.
InnerExceptCatches(cls) == cls \in {"JSONDecodeError", "ModelContentFilterError"}

\* A handle_error whose last line re-raises the error it was given.
HandleErrorLeaky(e, op, m) ==
    IF IsTimeoutError(e) THEN ModelTimeoutError(op, m, timeout)
    ELSE IF IsConnectionError(e) \/ IsHTTPError(e) THEN ModelAdapterError(op, m)
    ELSE ModelError(e.cls, op, m, 0, PyNone, NoReason)
HandleError(e, op, m) ==
    IF IsTimeoutError(e) THEN ModelTimeoutError(op, m, timeout)
    ELSE IF IsConnectionError(e) THEN ModelAdapterError(op, m)
    ELSE IF IsHTTPError(e) THEN
        IF StatusCode(e) \in {401, 403} THEN ModelAuthenticationError(op, m)
        ELSE IF StatusCode(e) = 429 THEN ModelRateLimitError(op, m, RetryAfter(e))
        ELSE IF /\ StatusCode(e) = 400
                /\ ContentFilterRaised(e)
                /\ ~InnerExceptCatches("ModelContentFilterError")
             THEN ModelContentFilterError(op, m, FilterReason(e))
        ELSE ModelAdapterError(op, m)
    ELSE ModelAdapterError(op, m)

\* The spec's name of the kind of a raised error.
KindOf(err) ==
    CASE err.cls = "ModelTimeoutError" -> "Timeout"
      [] err.cls = "ModelAuthenticationError" -> "Authentication"
      [] err.cls = "ModelRateLimitError" -> "RateLimit"
      [] err.cls = "ModelContentFilterError" -> "ContentFilter"
      [] err.cls = "ModelAdapterError" -> "Generic"
      [] OTHER -> "none"

(***************************************************************************)
(* The retry loop of generate_text, generate_chat_completion and their     *)
(* async forms (the same loop, written four times).                        *)
(***************************************************************************)
\* The exceptions one attempt of the operation can end with.
TransportErrors(op) == IF op \in SyncOperations THEN SyncErrors ELSE AsyncErrors
\* A text operation that tests `'choices' in result` alone: an empty choices
\* list passes.
AfterOkKeyOnly(op, body) ==
    IF op \in TextOperations
    THEN IF body # "no_choices" THEN NoError ELSE InvalidFormat
    ELSE IF body = "empty_choices" THEN IndexErr ELSE NoError

\* What the try block does with a 2xx body: returns, or raises.
\* Text: 'choices' in result and len > 0, else ModelAdapterError.
\* Chat: format_chat_response; response.get('choices', [{}])[0] is an
\* IndexError on an empty list.
AfterOk(op, body) ==
    IF op \in TextOperations
    THEN IF body = "choices" THEN NoError ELSE InvalidFormat
    ELSE IF body = "empty_choices" THEN IndexErr ELSE NoError

\* The value returned for a 2xx body that raised nothing: the text of
\* choices[0], or the formatted chat response (message content '' when the
\* body has no choices).
Returns(op, body, text) ==
    IF op \in TextOperations THEN <<text>>
    ELSE IF body = "choices" THEN Formatted(text) ELSE Formatted("")

\* A retry guard that is off by one: the last retry is not made.
ShouldRetryStrict(r) == r < max_retries
\* A retry guard that allows one retry too many.
ShouldRetryLoose(r) == r <= max_retries + 1
\* if retries <= self.max_retries
ShouldRetry(r) == r <= max_retries
\* A backoff that does not grow with the attempt number.
BackoffFlat(r) == retry_delay
\* time.sleep(self.retry_delay * retries)
Backoff(r) == retry_delay * r

\* The kinds the spec calls non-retryable, read off the provider's answer.
NonRetryableFailure(e) ==
    /\ e.cls \in {"requests.HTTPError", "aiohttp.ClientResponseError"}
    /\ \/ e.status \in {401, 403, 429}
       \/ e.status = 400 /\ e.body.parsable /\ e.body.has_error /\ e.body.has_type
          /\ e.body.type = "content_filter"


\* The caller invokes one of the four operations.
Call(op, m, msgs) ==
    /\ pc = "idle"
    /\ operation' = op
    /\ model_name' = m
    /\ messages' = msgs
    /\ retries' = 0
    /\ posts' = 0
    /\ sleeps' = <<>>
    /\ last_error' = NoError
    /\ all_retryable' = TRUE
    /\ raised' = NoRaised
    /\ elapsed' = 0
    /\ answers' = NoAnswers
    /\ result' = NoResult
    /\ IF PrepareMessagesRaises(msgs)
       THEN pc' = "rejected" /\ payload' = NoPayload   \* ValueError, before the loop
       ELSE pc' = "attempt" /\ payload' = Payload(m, msgs)
    /\ UNCHANGED <<max_retries, retry_delay, timeout>>
    /\ UNCHANGED <<cvars, rvars, xvars, pvars, bvars, ovars>>

\* The least time an attempt that ends with e has taken: a timeout is raised
\* when the timeout given to the POST has run out.
AttemptTime(e) == IF IsTimeoutError(e) THEN timeout ELSE 0

\* The except clause of the loop, for the exception e of this attempt.
Except(e) ==
    /\ retries' = retries + 1
    /\ last_error' = e
    /\ elapsed' = elapsed + AttemptTime(e)
    /\ result' = result
    /\ all_retryable' = (all_retryable /\ ~NonRetryableFailure(e))
    /\ IF ShouldRetry(retries + 1)
       THEN /\ sleeps' = Append(sleeps, Backoff(retries + 1))
            /\ pc' = "sleeping"
            /\ raised' = raised
       ELSE /\ raised' = HandleError(e, operation, OrDefault(model_name))
            /\ pc' = "raised"
            /\ sleeps' = sleeps

\* One pass of the loop body: the POST fails in transport or with a non-2xx
\* status.
AttemptFails ==
    /\ pc = "attempt"
    /\ posts' = posts + 1
    /\ answers' = [last |-> "none", only_bad |-> FALSE]
    /\ \E e \in TransportErrors(operation) : Except(e)
    /\ UNCHANGED <<max_retries, retry_delay, timeout, operation, model_name,
                   messages, payload>>
    /\ UNCHANGED <<cvars, rvars, xvars, pvars, bvars, ovars>>

\* One pass of the loop body: the POST is answered 2xx.
AttemptAnswered ==
    /\ pc = "attempt"
    /\ posts' = posts + 1
    /\ \E body \in OkBodies, text \in Texts :
        /\ answers' = [last |-> body,
                       only_bad |-> answers.only_bad /\ body # "choices"]
        /\ IF AfterOk(operation, body) = NoError
           THEN /\ pc' = "returned"
                /\ result' = Returns(operation, body, text)
                /\ UNCHANGED <<retries, sleeps, last_error, all_retryable, raised,
                               elapsed>>
           ELSE Except(AfterOk(operation, body))
    /\ UNCHANGED <<max_retries, retry_delay, timeout, operation, model_name,
                   messages, payload>>
    /\ UNCHANGED <<cvars, rvars, xvars, pvars, bvars, ovars>>

\* The backoff sleep ends and the loop continues.
SleepDone ==
    /\ pc = "sleeping"
    /\ pc' = "attempt"
    /\ elapsed' = elapsed + sleeps[Len(sleeps)]
    /\ UNCHANGED <<max_retries, retry_delay, timeout, operation, model_name, retries,
                   posts, sleeps, last_error, all_retryable, raised, messages,
                   payload, answers, result>>
    /\ UNCHANGED <<cvars, rvars, xvars, pvars, bvars, ovars>>

\* The caller has the result or the error; the adapter is free for a next call.
Done ==
    /\ pc \in {"returned", "raised", "rejected"}
    /\ pc' = "idle"
    /\ UNCHANGED <<max_retries, retry_delay, timeout, operation, model_name, retries,
                   posts, sleeps, last_error, all_retryable, raised, messages,
                   payload, elapsed, answers, result>>
    /\ UNCHANGED <<cvars, rvars, xvars, pvars, bvars, ovars>>

AdapterNext ==
    \/ \E op \in Operations, m \in ModelNames : \E msgs \in MessagesOf(op) : Call(op, m, msgs)
    \/ AttemptFails
    \/ AttemptAnswered
    \/ SleepDone
    \/ Done


(***************************************************************************)
(* The result cache of MatchingService and PersonalityService.             *)
(***************************************************************************)
Services == {"matching", "personality"}
\* One key of MATCHING_TYPES / ANALYSIS_TYPES each.
TypeOf(svc) == IF svc = "matching" THEN "user_tribe" ELSE "assessment"
Datas == {"d1"}
NoOptions == "{}"
OptionValues == {NoOptions, "o1"}
\* A request of perform_matching / perform_analysis after its defaults are set.
Requests(svc) == [type : {TypeOf(svc)}, data : Datas, options : OptionValues,
                  model : {"m1"}]
\* generate_cache_key: sha256 of json.dumps(key_data, sort_keys=True). The
\* digest is kept as the canonical string's content: the four fields.
GenerateCacheKey(type, data, options, model) ==
    [type |-> type, data |-> data, options |-> options, model |-> model]
Keys == UNION {Requests(svc) : svc \in Services}

\* What the model returns: a result, or the empty list/dict of a degraded reply.
Results == {"r1", "r2", "empty"}
\* The dict built by the service's handle_error.
ErrorResponse == "error_response"
\* Python truth of a returned value: None and empty containers are falsy.
Truthy(v) == v \notin {None, "empty"}

NoEntry == [present |-> FALSE, result |-> None, timestamp |-> 0]
Entry(r, t) == [present |-> TRUE, result |-> r, timestamp |-> t]
EmptyCache == [k \in Keys |-> NoEntry]
\* `self._cache is None`: a test that the empty dict passes
CacheIsNone(c) == FALSE
\* `not self._cache`: None (caching disabled) and the empty dict are falsy.
CacheIsFalsy(c) == \A k \in Keys : ~c[k].present
\* the cache size of get_matching_statistics / get_analysis_statistics:
\* len(self._cache) when caching is enabled (and, in MatchingService, the
\* cache is truthy), else 0
ReportedSize(c) ==
    IF cache_enabled /\ (service = "personality" \/ ~CacheIsFalsy(c))
    THEN Cardinality({k \in Keys : c[k].present}) ELSE 0

\* A lookup that sweeps: it deletes every expired entry, not only the one
\* of its key.
GetCachedResultSweeping(c, k) ==
    IF ~cache_enabled \/ CacheIsFalsy(c) THEN [value |-> None, cache |-> c]
    ELSE LET swept == [j \in Keys |->
                          IF c[j].present /\ now - c[j].timestamp > cache_ttl
                          THEN NoEntry ELSE c[j]]
         IN  [value |-> IF swept[k].present THEN swept[k].result ELSE None,
              cache |-> swept]

\* get_cached_result: the value returned and the cache afterwards.
GetCachedResult(c, k) ==
    IF ~cache_enabled \/ CacheIsFalsy(c) THEN [value |-> None, cache |-> c]
    ELSE IF c[k].present
         THEN IF now - c[k].timestamp > cache_ttl
              THEN [value |-> None, cache |-> [c EXCEPT ![k] = NoEntry]]
              ELSE [value |-> c[k].result, cache |-> c]
         ELSE [value |-> None, cache |-> c]

\* cache_result: the cache afterwards.
CacheResult(c, k, r) ==
    IF ~cache_enabled \/ CacheIsFalsy(c) THEN c
    ELSE [c EXCEPT ![k] = Entry(r, now)]

NoStored == [present |-> FALSE, time |-> 0, result |-> None]
NoCall == [valid |-> FALSE, key |-> GenerateCacheKey("", "", "", ""), time |-> 0,
           hit |-> FALSE, called_model |-> FALSE, result |-> None,
           had |-> FALSE, prev_time |-> 0, prev_result |-> None]


\* The outcome of the lookups and of the model call, for the request req and
\* the model's answer `answer` (a result, or "raise"):
\*   MatchingService.perform_matching: lookup, model, cache_result;
\*   PersonalityService.perform_analysis: lookup, then analyze_<type>, which
\*   looks up its own key (options {}), calls the model, stores under its key
\*   and turns an exception into the error response; then cache_result of
\*   whatever it returned under the outer key.
ServiceOutcome(req, answer) ==
    LET key == GenerateCacheKey(req.type, req.data, req.options, req.model)
        inner == GenerateCacheKey(req.type, req.data, NoOptions, req.model)
        g1 == GetCachedResult(cache, key)
        g2 == GetCachedResult(g1.cache, inner)
    IN  IF Truthy(g1.value)
        THEN [result |-> g1.value, cache |-> g1.cache, called_model |-> FALSE,
              computed |-> FALSE]
        ELSE IF service = "matching"
        THEN IF answer = "raise"
             THEN [result |-> ErrorResponse, cache |-> g1.cache,
                   called_model |-> TRUE, computed |-> FALSE]
             ELSE [result |-> answer, cache |-> CacheResult(g1.cache, key, answer),
                   called_model |-> TRUE, computed |-> TRUE]
        ELSE IF Truthy(g2.value)
        THEN [result |-> g2.value, cache |-> CacheResult(g2.cache, key, g2.value),
              called_model |-> FALSE, computed |-> FALSE]
        ELSE IF answer = "raise"
        THEN [result |-> ErrorResponse,
              cache |-> CacheResult(g2.cache, key, ErrorResponse),
              called_model |-> TRUE, computed |-> FALSE]
        ELSE [result |-> answer,
              cache |-> CacheResult(CacheResult(g2.cache, inner, answer), key, answer),
              called_model |-> TRUE, computed |-> TRUE]

\* perform_matching / perform_analysis, from the lookup to the return.
ServiceCall(req) ==
    /\ model_calls < MaxCalls
    /\ \E answer \in Results \cup {"raise"} :
        LET o == ServiceOutcome(req, answer)
            key == GenerateCacheKey(req.type, req.data, req.options, req.model)
        IN  /\ cache' = o.cache
            /\ model_calls' = IF o.called_model THEN model_calls + 1 ELSE model_calls
            /\ stored' = IF o.computed
                         THEN [stored EXCEPT ![key] =
                                  [present |-> TRUE, time |-> now, result |-> o.result]]
                         ELSE stored
            /\ last_call' = [valid |-> TRUE, key |-> key, time |-> now,
                             hit |-> ~o.called_model, called_model |-> o.called_model,
                             result |-> o.result,
                             had |-> stored[key].present,
                             prev_time |-> stored[key].time,
                             prev_result |-> stored[key].result]
    /\ UNCHANGED <<service, cache_enabled, cache_ttl, now>>
    /\ UNCHANGED <<avars, rvars, xvars, pvars, bvars, ovars>>

\* clear_cache (also the last step of close / async_close).
ClearCache ==
    /\ cache' = IF cache_enabled /\ ~CacheIsFalsy(cache) THEN EmptyCache ELSE cache
    /\ stored' = [k \in Keys |-> NoStored]
    /\ last_call' = NoCall
    /\ UNCHANGED <<service, cache_enabled, cache_ttl, now, model_calls>>
    /\ UNCHANGED <<avars, rvars, xvars, pvars, bvars, ovars>>

\* Time passes.
CacheTick ==
    /\ now < MaxClock
    /\ now' = now + 1
    /\ UNCHANGED <<service, cache_enabled, cache_ttl, cache, model_calls, stored,
                   last_call>>
    /\ UNCHANGED <<avars, rvars, xvars, pvars, bvars, ovars>>

CacheNext ==
    \/ \E req \in Requests(service) : ServiceCall(req)
    \/ ClearCache
    \/ CacheTick


(***************************************************************************)
(* RecommendationService: its cache and its statistics.                    *)
(***************************************************************************)
\* Two of RECOMMENDATION_TYPES: recommend_events, recommend_venues.
RecTypes == {"events", "venues"}
TribeIds == {"t1"}
\* The tribe's data besides its id, and the context argument.
TribeDatas == {"a", "b"}
\* A call: recommend_<type>(tribe_data, location, ..., context, model_name).
RecRequests == [type : RecTypes, tribe_id : TribeIds, tribe_data : TribeDatas,
                args : {"x"}, model : {"m1"}]
\* cache_key = f"{type}:{json.dumps(tribe['id'])}:{args...}:{model_name}"
RecKey(req) == [type |-> req.type, tribe_id |-> req.tribe_id, args |-> req.args,
                model |-> req.model]
RecKeys == {RecKey(req) : req \in RecRequests}
RecResults == {"r1", "r2"}
NoRec == "absent"

ZeroStats == [count |-> 0, cache_hits |-> 0, errors |-> 0]
NoneDone == [calls |-> 0, model_calls |-> 0]
RecOutcomes == {"hit", "ok", "raise"}

\* statistics with `count += 1` placed before the model call: a call of the
\* model that raises is counted twice
StatsAfterCountFirst(st, outcome) ==
    CASE outcome = "hit" -> [st EXCEPT !.cache_hits = @ + 1]
      [] outcome = "ok" -> [st EXCEPT !.count = @ + 1]
      [] outcome = "raise" -> [st EXCEPT !.count = @ + 1, !.errors = @ + 1]
\* self._stats[type]: cache_hits += 1 on a hit; count += 1 after the model
\* call returned; errors += 1 in the except clause
StatsAfter(st, outcome) ==
    CASE outcome = "hit" -> [st EXCEPT !.cache_hits = @ + 1]
      [] outcome = "ok" -> [st EXCEPT !.count = @ + 1]
      [] outcome = "raise" -> [st EXCEPT !.errors = @ + 1]
NoRecCall == [valid |-> FALSE, type |-> "", time |-> 0, hit |-> FALSE,
              result |-> NoRec, created |-> 0, tribe_data |-> NoRec, owner |-> NoRec]


RecCalls == rec_stats["events"].count + rec_stats["events"].cache_hits
            + rec_stats["events"].errors + rec_stats["venues"].count
            + rec_stats["venues"].cache_hits + rec_stats["venues"].errors

\* `cache_key in self._cache`, with self._cache None when caching is disabled.
RecCached(k) == cache_enabled /\ rec_cache[k] # NoRec

\* recommend_events / recommend_venues, from the key to the return (the
\* same steps in recommend_weather_based_activities, recommend_budget_options
\* and, on the statistics of its recommendation_type, generate_recommendations).
Recommend(req) ==
    /\ RecCalls < MaxCalls
    /\ LET k == RecKey(req)
       IN  IF RecCached(k)
           THEN /\ rec_stats' = [rec_stats EXCEPT ![req.type] = StatsAfter(@, "hit")]
                /\ rec_done' = [rec_done EXCEPT ![req.type].calls = @ + 1]
                /\ rec_last' = [valid |-> TRUE, type |-> req.type, time |-> now,
                                hit |-> TRUE, result |-> rec_cache[k],
                                created |-> rec_created[k],
                                tribe_data |-> req.tribe_data, owner |-> rec_owner[k]]
                /\ UNCHANGED <<rec_cache, rec_created, rec_owner>>
           ELSE \E answer \in RecResults \cup {"raise"} :
                IF answer = "raise"
                THEN /\ rec_stats' = [rec_stats EXCEPT ![req.type] = StatsAfter(@, "raise")]
                     /\ rec_done' = [rec_done EXCEPT ![req.type].calls = @ + 1,
                                                     ![req.type].model_calls = @ + 1]
                     /\ rec_last' = [valid |-> TRUE, type |-> req.type, time |-> now,
                                     hit |-> FALSE, result |-> "[]", created |-> now,
                                     tribe_data |-> req.tribe_data,
                                     owner |-> req.tribe_data]
                     /\ UNCHANGED <<rec_cache, rec_created, rec_owner>>
                ELSE /\ rec_stats' = [rec_stats EXCEPT ![req.type] = StatsAfter(@, "ok")]
                     /\ rec_done' = [rec_done EXCEPT ![req.type].calls = @ + 1,
                                                     ![req.type].model_calls = @ + 1]
                     /\ rec_cache' = IF cache_enabled
                                     THEN [rec_cache EXCEPT ![k] = answer]
                                     ELSE rec_cache
                     /\ rec_created' = IF cache_enabled
                                       THEN [rec_created EXCEPT ![k] = now]
                                       ELSE rec_created
                     /\ rec_owner' = IF cache_enabled
                                     THEN [rec_owner EXCEPT ![k] = req.tribe_data]
                                     ELSE rec_owner
                     /\ rec_last' = [valid |-> TRUE, type |-> req.type, time |-> now,
                                     hit |-> FALSE, result |-> answer, created |-> now,
                                     tribe_data |-> req.tribe_data,
                                     owner |-> req.tribe_data]
    /\ UNCHANGED <<cache_enabled, cache_ttl, now>>
    /\ UNCHANGED <<avars, service, cache, model_calls, stored, last_call, xvars, pvars, bvars, ovars>>

\* clear_cache(recommendation_type): all entries, or those of one type.
RecClearCache(t) ==
    /\ cache_enabled
    /\ rec_cache' = [k \in RecKeys |->
                        IF t = None \/ k.type = t THEN NoRec ELSE rec_cache[k]]
    /\ UNCHANGED <<cache_enabled, cache_ttl, now, rec_created, rec_owner, rec_stats, rec_last,
                   rec_done>>
    /\ UNCHANGED <<avars, service, cache, model_calls, stored, last_call, xvars, pvars, bvars, ovars>>

\* Time passes.
RecTick ==
    /\ now < MaxClock
    /\ now' = now + 1
    /\ UNCHANGED <<cache_enabled, cache_ttl, rec_cache, rec_created, rec_owner, rec_stats,
                   rec_last, rec_done>>
    /\ UNCHANGED <<avars, service, cache, model_calls, stored, last_call, xvars, pvars, bvars, ovars>>

RecNext ==
    \/ \E req \in RecRequests : Recommend(req)
    \/ \E t \in RecTypes \cup {None} : RecClearCache(t)
    \/ RecTick


(***************************************************************************)
(* extract_json_from_response (utils/prompt_engineering.py) and            *)
(* clean_text_data (utils/data_preprocessing.py). A text is a sequence of  *)
(* one-character strings.                                                  *)
(***************************************************************************)
Whitespace == {" ", "\n"}
\* \w of the alphabet in use
WordChars == {"a", "1", "j", "s", "o", "n", "x"}
\* [\w\s.,!?'"-]: what the first re.sub of clean_text_data keeps
KeptChars == WordChars \cup Whitespace \cup {".", ",", "!", "?", "'", "\"", "-"}

RECURSIVE Filter(_, _)
\* re.sub(r'[^...]', '', text): the characters of S, in order
Filter(t, S) ==
    IF t = <<>> THEN <<>>
    ELSE IF Head(t) \in S THEN <<Head(t)>> \o Filter(Tail(t), S)
    ELSE Filter(Tail(t), S)

RECURSIVE CollapseWs(_)
\* re.sub(r'\s+', ' ', text): every run of whitespace becomes one space
CollapseWs(t) ==
    IF t = <<>> THEN <<>>
    ELSE IF Head(t) \in Whitespace
         THEN IF Len(t) > 1 /\ t[2] \in Whitespace
              THEN CollapseWs(Tail(t))
              ELSE <<" ">> \o CollapseWs(Tail(t))
         ELSE <<Head(t)>> \o CollapseWs(Tail(t))

RECURSIVE LStrip(_)
LStrip(t) == IF t # <<>> /\ Head(t) \in Whitespace THEN LStrip(Tail(t)) ELSE t
RECURSIVE RStrip(_)
RStrip(t) == IF t # <<>> /\ t[Len(t)] \in Whitespace
             THEN RStrip(SubSeq(t, 1, Len(t) - 1)) ELSE t
\* str.strip()
Strip(t) == RStrip(LStrip(t))

\* A Python argument: a str, or some other value (None, a dict, ...).
Str(t) == [is_str |-> TRUE, text |-> t]
NotAStr == [is_str |-> FALSE, text |-> <<>>]

\* clean_text_data without its isinstance test: re.sub raises TypeError on a
\* value that is no str.
CleanTextDataUnguarded(v) ==
    IF ~v.is_str THEN [raised |-> TRUE, text |-> <<>>]
    ELSE [raised |-> FALSE, text |-> Strip(CollapseWs(Filter(v.text, KeptChars)))]
\* clean_text_data(text) with lowercase=False, max_length=None: the outcome is
\* the cleaned str, or an exception.
CleanTextData(v) ==
    IF ~v.is_str THEN [raised |-> FALSE, text |-> <<>>]
    ELSE [raised |-> FALSE, text |-> Strip(CollapseWs(Filter(v.text, KeptChars)))]

\* ---- the regular expression of extract_json_from_response ----
\* The backquote, which a TLA+ string cannot hold, is written BQ.
BQ == "bq"
Fence == <<BQ, BQ, BQ>>
StartsWithAt(t, i, w) == i + Len(w) - 1 <= Len(t) /\ SubSeq(t, i, i + Len(w) - 1) = w
RECURSIVE SkipWs(_, _)
\* \s*: the first index from i on that holds no whitespace
SkipWs(t, i) == IF i <= Len(t) /\ t[i] \in Whitespace THEN SkipWs(t, i + 1) ELSE i
\* The indexes >= i where w starts / where character c stands.
Starts(t, i, w) == {j \in i..Len(t) : StartsWithAt(t, j, w)}
Positions(t, i, c) == {j \in i..Len(t) : t[j] = c}
Min(S) == CHOOSE x \in S : \A y \in S : x <= y
Max(S) == CHOOSE x \in S : \A y \in S : x >= y

NoMatch == [found |-> FALSE, g1 |-> <<>>, g2 |-> <<>>, end |-> 0]
\* FENCE(?:json)?\s*([\s\S]*?)FENCE anchored at i
FenceMatch(t, i) ==
    IF ~StartsWithAt(t, i, Fence) THEN NoMatch
    ELSE LET p1 == IF StartsWithAt(t, i + 3, <<"j", "s", "o", "n">>) THEN i + 7 ELSE i + 3
             p == SkipWs(t, p1)
             \* a closing fence may start inside the \s* or json that a
             \* backtracking match gives back: none of them is a backquote,
             \* so the first closing fence is at p or later
             closes == Starts(t, p, Fence)
         IN  IF closes = {} THEN NoMatch
             ELSE [found |-> TRUE, g1 |-> SubSeq(t, p, Min(closes) - 1), g2 |-> <<>>,
                   end |-> Min(closes) + 2]
\* (\{[\s\S]*\}|\[[\s\S]*\]) anchored at i: greedy, to the last closer
BracketMatch(t, i) ==
    IF i <= Len(t) /\ t[i] = "{" /\ Positions(t, i + 1, "}") # {}
    THEN [found |-> TRUE, g1 |-> <<>>, g2 |-> SubSeq(t, i, Max(Positions(t, i + 1, "}"))),
          end |-> Max(Positions(t, i + 1, "}"))]
    ELSE IF i <= Len(t) /\ t[i] = "[" /\ Positions(t, i + 1, "]") # {}
    THEN [found |-> TRUE, g1 |-> <<>>, g2 |-> SubSeq(t, i, Max(Positions(t, i + 1, "]"))),
          end |-> Max(Positions(t, i + 1, "]"))]
    ELSE NoMatch
MatchAt(t, i) == IF FenceMatch(t, i).found THEN FenceMatch(t, i) ELSE BracketMatch(t, i)

RECURSIVE FindAll(_, _)
\* re.findall(json_pattern, text) from index i: the tuples of groups
FindAll(t, i) ==
    IF i > Len(t) THEN <<>>
    ELSE IF MatchAt(t, i).found
         THEN <<MatchAt(t, i)>> \o FindAll(t, MatchAt(t, i).end + 1)
         ELSE FindAll(t, i + 1)

\* group and (group.strip().startswith('{') or group.strip().startswith('['))
GroupIsJson(g) == g # <<>> /\ Strip(g) # <<>> /\ Head(Strip(g)) \in {"{", "["}
RECURSIVE FirstJsonGroup(_)
\* Lines 391-399: the first group of the first match that looks like JSON.
FirstJsonGroup(ms) ==
    IF ms = <<>> THEN <<>>
    ELSE IF GroupIsJson(Head(ms).g1) THEN Strip(Head(ms).g1)
    ELSE IF GroupIsJson(Head(ms).g2) THEN Strip(Head(ms).g2)
    ELSE FirstJsonGroup(Tail(ms))

\* Lines 402-409: from the first opener to the last closer.
DirectJson(t) ==
    LET opens == IF Positions(t, 1, "{") # {} THEN Positions(t, 1, "{")
                 ELSE Positions(t, 1, "[")
        closes == IF Positions(t, 1, "}") # {} THEN Positions(t, 1, "}")
                  ELSE Positions(t, 1, "]")
    IN  IF opens # {} /\ closes # {} /\ Max(closes) > Min(opens)
        THEN SubSeq(t, Min(opens), Max(closes))
        ELSE <<>>


\* ---- json.loads, for the JSON texts the alphabet can spell ----
JsonFail == [ok |-> FALSE, next |-> 0, kind |-> "", canon |-> <<>>]
JsonOk(n, k, c) == [ok |-> TRUE, next |-> n, kind |-> k, canon |-> c]
Digits == {"1"}
RECURSIVE DigitsEnd(_, _)
DigitsEnd(t, i) == IF i <= Len(t) /\ t[i] \in Digits THEN DigitsEnd(t, i + 1) ELSE i

\* A string: from the quote at i to the next quote, no control character inside.
ParseString(t, i) ==
    IF i > Len(t) \/ t[i] # "\"" \/ Positions(t, i + 1, "\"") = {} THEN JsonFail
    ELSE LET j == Min(Positions(t, i + 1, "\""))
         IN  IF \E k \in (i + 1)..(j - 1) : t[k] = "\n" THEN JsonFail
             ELSE JsonOk(j + 1, "string", SubSeq(t, i, j))

RECURSIVE ParseValue(_, _), ArrayItems(_, _, _), ObjectItems(_, _, _)
\* The value that starts at the first non-blank index from i on; canon is its
\* text without insignificant whitespace.
ParseValue(t, i) ==
    LET j == SkipWs(t, i)
    IN  IF j > Len(t) THEN JsonFail
        ELSE IF t[j] = "\"" THEN ParseString(t, j)
        ELSE IF t[j] \in Digits THEN JsonOk(DigitsEnd(t, j), "number",
                                            SubSeq(t, j, DigitsEnd(t, j) - 1))
        ELSE IF t[j] = "["
        THEN IF SkipWs(t, j + 1) <= Len(t) /\ t[SkipWs(t, j + 1)] = "]"
             THEN JsonOk(SkipWs(t, j + 1) + 1, "array", <<"[", "]">>)
             ELSE ArrayItems(t, j + 1, <<"[">>)
        ELSE IF t[j] = "{"
        THEN IF SkipWs(t, j + 1) <= Len(t) /\ t[SkipWs(t, j + 1)] = "}"
             THEN JsonOk(SkipWs(t, j + 1) + 1, "object", <<"{", "}">>)
             ELSE ObjectItems(t, SkipWs(t, j + 1), <<"{">>)
        ELSE JsonFail
ArrayItems(t, i, acc) ==
    LET v == ParseValue(t, i)
        k == SkipWs(t, v.next)
    IN  IF ~v.ok \/ k > Len(t) THEN JsonFail
        ELSE IF t[k] = "," THEN ArrayItems(t, k + 1, acc \o v.canon \o <<",">>)
        ELSE IF t[k] = "]" THEN JsonOk(k + 1, "array", acc \o v.canon \o <<"]">>)
        ELSE JsonFail
ObjectItems(t, i, acc) ==
    LET key == ParseString(t, i)
        c == SkipWs(t, key.next)
        v == ParseValue(t, c + 1)
        k == SkipWs(t, v.next)
    IN  IF ~key.ok \/ c > Len(t) \/ t[c] # ":" THEN JsonFail
        ELSE IF ~v.ok \/ k > Len(t) THEN JsonFail
        ELSE IF t[k] = ","
        THEN ObjectItems(t, SkipWs(t, k + 1), acc \o key.canon \o <<":">> \o v.canon \o <<",">>)
        ELSE IF t[k] = "}"
        THEN JsonOk(k + 1, "object", acc \o key.canon \o <<":">> \o v.canon \o <<"}">>)
        ELSE JsonFail

\* json.loads(s): the value, or JSONDecodeError (also for trailing data).
JsonLoads(t) ==
    LET v == ParseValue(t, 1)
    IN  IF v.ok /\ SkipWs(t, v.next) > Len(t) THEN v ELSE JsonFail

\* ---- extract_json_from_response ----
\* What a call ends with: a returned value (its kind and canonical text), or an
\* exception that leaves the function.
Returned(k, c) == [called |-> TRUE, raised |-> FALSE, kind |-> k, canon |-> c]
Raises == [called |-> TRUE, raised |-> TRUE, kind |-> "", canon |-> <<>>]
NotCalled == [called |-> FALSE, raised |-> FALSE, kind |-> "", canon |-> <<>>]
\* return {}
EmptyResult == Returned("object", <<"{", "}">>)

ExtractJsonFromResponse(v) ==
    LET cleaned == CleanTextData(v)
        found == FirstJsonGroup(FindAll(cleaned.text, 1))
        json_str == IF found # <<>> THEN found ELSE DirectJson(cleaned.text)
        parsed == JsonLoads(json_str)
    IN  IF cleaned.raised THEN Raises
        ELSE IF json_str # <<>> /\ parsed.ok THEN Returned(parsed.kind, parsed.canon)
        ELSE EmptyResult

\* The replies of the spec's test: {"a":1} bare, fenced, in prose; plain prose.
BareJson == <<"{", "\"", "a", "\"", ":", "1", "}">>
FencedJson == Fence \o <<"j", "s", "o", "n", "\n">> \o BareJson \o <<"\n">> \o Fence
ProseJson == <<"x", "x", ":", " ">> \o BareJson \o <<" ", "x", ".">>
PlainProse == <<"x", "x", " ", "x", ".">>
SampleTexts == {BareJson, FencedJson, ProseJson, PlainProse}
\* The characters of the enumerated replies.
ReplyChars == {"{", "}", "[", "]", "\"", "1", ",", " ", BQ}
Replies == {Str(t) : t \in SampleTexts}
           \cup {Str(t) : t \in UNION {[1..n -> ReplyChars] : n \in 0..MaxText}}
           \cup {NotAStr}


\* The call extract_json_from_response(response).
Extract ==
    /\ ~extracted.called
    /\ extracted' = ExtractJsonFromResponse(response)
    /\ UNCHANGED response
    /\ UNCHANGED <<avars, cvars, rvars, pvars, bvars, ovars>>

ExtractNext == Extract

(***************************************************************************)
(* prepare_parameters (adapters/model_adapter.py). temperature is counted  *)
(* in tenths, top_p in two-hundredths (0.005), so that top_p has values    *)
(* between 0 and the 0.01 it is raised to.                                 *)
(***************************************************************************)
MaxOver == 2         \* numeric inputs range from MaxOver below to MaxOver above the limits
TemperatureMax == 20      \* 2
TopPMax == 200            \* 1
TopPFloor == 2            \* 0.01
DefaultTemperature == 7   \* MODEL_CONFIGS[...]['temperature'] = 0.7
DefaultTopP == 200        \* MODEL_CONFIGS[...]['top_p'] = 1.0

\* A value of the dict: a number, float('nan'), or no such key.
Num(n) == [t |-> "num", n |-> n]
NaN == [t |-> "nan", n |-> 0]
Absent == [t |-> "absent", n |-> 0]
\* MODEL_CONFIGS.get(model, {}): every configured model has the same two
\* defaults; another model has none.
ModelConfig(m) ==
    IF ModelOrDefault(m) = DEFAULT_MODEL
    THEN [temperature |-> Num(DefaultTemperature), top_p |-> Num(DefaultTopP)]
    ELSE [temperature |-> Absent, top_p |-> Absent]

\* max(0, min(v, 2)) applied to every value, also a valid one.
ClampTemperatureNever(v) == v
\* Lines 491-492. Every comparison with nan is False: min(nan, 2) is nan and
\* max(0, nan) is 0.
ClampTemperature(v) ==
    IF v = Absent THEN Absent
    ELSE IF v = NaN THEN Num(0)
    ELSE IF ~(0 <= v.n /\ v.n <= TemperatureMax)
    THEN (IF v.n > TemperatureMax THEN Num(TemperatureMax) ELSE Num(0))
    ELSE v
\* max(0.01, min(v, 1)) applied to every value, also a valid one.
ClampTopPAlways(v) ==
    IF v = Absent THEN Absent
    ELSE IF v = NaN THEN Num(TopPFloor)
    ELSE IF v.n > TopPMax THEN Num(TopPMax)
    ELSE IF v.n < TopPFloor THEN Num(TopPFloor) ELSE v
\* Lines 494-496: max(0.01, min(v, 1)) when not 0 < v <= 1.
ClampTopP(v) ==
    IF v = Absent THEN Absent
    ELSE IF v = NaN THEN Num(TopPFloor)
    ELSE IF ~(0 < v.n /\ v.n <= TopPMax)
    THEN (IF v.n > TopPMax THEN Num(TopPMax) ELSE Num(TopPFloor))
    ELSE v

\* prepare_parameters(parameters, model_name): the model's defaults, updated
\* with the caller's parameters, then clamped.
PrepareParameters(ps, m) ==
    LET merged == [k \in {"temperature", "top_p"} |->
                      IF ps[k] # Absent THEN ps[k] ELSE ModelConfig(m)[k]]
    IN  [temperature |-> ClampTemperature(merged.temperature),
         top_p |-> ClampTopP(merged.top_p)]

NoParameters == [temperature |-> Absent, top_p |-> Absent]
NotPrepared == [temperature |-> [t |-> "unset", n |-> 0], top_p |-> [t |-> "unset", n |-> 0]]
\* The numeric arguments, with nan, and the absent key.
ParameterSets ==
    [temperature : {Num(n) : n \in (0 - MaxOver)..(TemperatureMax + MaxOver)}
                   \cup {Absent, NaN},
     top_p : {Num(n) : n \in (0 - MaxOver)..(TopPMax + MaxOver)} \cup {Absent, NaN}]

\* prepared_params = self.prepare_parameters(parameters, model_name); the
\* request body is {..., **prepared_params}.
Prepare ==
    /\ prepared = NotPrepared
    /\ prepared' = PrepareParameters(parameters, params_model)
    /\ UNCHANGED <<parameters, params_model, prepared_again>>
    /\ UNCHANGED <<avars, cvars, rvars, xvars, bvars, ovars>>

\* The prepared parameters are prepared once more.
PrepareAgain ==
    /\ prepared # NotPrepared
    /\ prepared_again = NotPrepared
    /\ prepared_again' = PrepareParameters(prepared, params_model)
    /\ UNCHANGED <<parameters, params_model, prepared>>
    /\ UNCHANGED <<avars, cvars, rvars, xvars, bvars, ovars>>

ParamsNext == Prepare \/ PrepareAgain

(***************************************************************************)
(* The batch operations: RecommendationService.batch_generate_recommendations *)
(* (asyncio.gather over async_generate_recommendations, which has the      *)
(* service's cache) and MatchingModel.batch_perform_matching (a loop).     *)
(***************************************************************************)
MaxBatch == 2        \* length of a batch
BatchKinds == {"recommendations", "matching"}
\* An input: the tribe's (or user's) id and the rest of its data.
BatchItems == [id : {"t1", "t2"}, data : TribeDatas]
BatchInputs == UNION {[1..n -> BatchItems] : n \in 0..MaxBatch}
\* What the model computes from an input, and the neutral [] or {}.
Own(item) == <<item.id, item.data>>
Neutral == <<>>
\* cache_key = f"{type}:{json.dumps(tribe['id'])}:{data_hash}:{model_name}":
\* within the batches of one type, data argument and model, the tribe's id.
NotCached == <<"absent">>
EmptyBatchCache == [id \in {"t1", "t2"} |-> NotCached]
NotReturned == [returned |-> FALSE, list |-> <<>>]

\* The batch operation is called: it has created no task yet.
BatchCall(kind, inputs) ==
    /\ batch_kind = "none" \/ batch_out.returned
    /\ batch_kind' = kind
    /\ batch_inputs' = inputs
    /\ batch_state' = [i \in 1..Len(inputs) |-> "new"]
    /\ batch_results' = [i \in 1..Len(inputs) |-> Neutral]
    /\ batch_out' = NotReturned
    /\ UNCHANGED batch_cache
    /\ UNCHANGED <<avars, cvars, rvars, xvars, pvars, ovars>>

\* The processing of input i begins, after that of the inputs before it has
\* begun (gather starts its tasks in order) or, in the loop of
\* batch_perform_matching, has ended. async_generate_recommendations first
\* looks into the cache.
TaskStart(i) ==
    /\ batch_kind \in BatchKinds /\ i \in 1..Len(batch_inputs)
    /\ batch_state[i] = "new"
    /\ \A j \in 1..(i - 1) :
          IF batch_kind = "matching" THEN batch_state[j] \in {"done", "failed"}
          ELSE batch_state[j] # "new"
    /\ IF /\ batch_kind = "recommendations" /\ cache_enabled
          /\ batch_cache[batch_inputs[i].id] # NotCached
       THEN /\ batch_state' = [batch_state EXCEPT ![i] = "done"]
            /\ batch_results' = [batch_results EXCEPT ![i] = batch_cache[batch_inputs[i].id]]
       ELSE /\ batch_state' = [batch_state EXCEPT ![i] = "waiting"]
            /\ UNCHANGED batch_results
    /\ UNCHANGED <<batch_kind, batch_inputs, batch_cache, batch_out>>
    /\ UNCHANGED <<avars, cvars, rvars, xvars, pvars, ovars>>

\* The model has answered for input i, or its processing raised: the result,
\* stored in the cache, or the neutral result.
TaskFinish(i) ==
    /\ batch_kind \in BatchKinds /\ i \in 1..Len(batch_inputs)
    /\ batch_state[i] = "waiting"
    /\ \E ok \in BOOLEAN :
        /\ batch_state' = [batch_state EXCEPT ![i] = IF ok THEN "done" ELSE "failed"]
        /\ batch_results' = [batch_results EXCEPT
                                ![i] = IF ok THEN Own(batch_inputs[i]) ELSE Neutral]
        /\ batch_cache' = IF ok /\ batch_kind = "recommendations" /\ cache_enabled
                          THEN [batch_cache EXCEPT ![batch_inputs[i].id] = Own(batch_inputs[i])]
                          ELSE batch_cache
    /\ UNCHANGED <<batch_kind, batch_inputs, batch_out>>
    /\ UNCHANGED <<avars, cvars, rvars, xvars, pvars, ovars>>

\* Every input is processed: the list of results, in the order of the inputs.
BatchReturn ==
    /\ batch_kind \in BatchKinds /\ ~batch_out.returned
    /\ \A i \in 1..Len(batch_inputs) : batch_state[i] \in {"done", "failed"}
    /\ batch_out' = [returned |-> TRUE, list |-> batch_results]
    /\ UNCHANGED <<batch_kind, batch_inputs, batch_state, batch_results, batch_cache>>
    /\ UNCHANGED <<avars, cvars, rvars, xvars, pvars, ovars>>

BatchNext ==
    \/ \E kind \in BatchKinds, inputs \in BatchInputs : BatchCall(kind, inputs)
    \/ \E i \in 1..MaxBatch : TaskStart(i)
    \/ \E i \in 1..MaxBatch : TaskFinish(i)
    \/ BatchReturn

(***************************************************************************)
(* The lifecycle of an adapter: the sessions of OpenRouterAdapter, close,   *)
(* async_close and the context managers of ModelAdapter, and the response   *)
(* table and failure mode of MockModelAdapter.                              *)
(***************************************************************************)
MaxTasks == 2        \* async operations in progress at once
MaxEnsured == 3      \* calls of ensure_async_session per behaviour
MaxModeCalls == 3    \* set_failure_mode calls per behaviour

AdapterClasses == {"OpenRouterAdapter", "MockModelAdapter"}
\* a with block or an async with block, and how its body ends
Scopes == {"with", "async_with"}
BodyEnds == {"normal", "error", "cancelled"}
ClosingOps == {"close", "async_close"}

NoExit == [kind |-> "none", exc |-> "normal", session_calls |-> 0, async_calls |-> 0,
           had_async |-> FALSE, session |-> "open", async_session |-> None]
NoClose == [op |-> "none", done |-> {}, repeat |-> FALSE, raised |-> FALSE,
            changed |-> FALSE]
MockPrompts == {"p1"}
MockExceptions == {"e1", "e2"}
NoMockCall == [op |-> "none", raised |-> None, returned |-> FALSE, text |-> ""]

\* the outcome of a close() or async_close(): the adapter afterwards, the
\* calls made to session.close() and async_session.close(), a raise
Closed(s, a, r, sc, ac, exc) ==
    [session |-> s, async_session |-> a, responses |-> r, session_calls |-> sc,
     async_calls |-> ac, raised |-> exc]

\* async_close with no guard: close() is called on whatever async_session is
HasAsyncSessionUnguarded(a) == TRUE
\* `hasattr(self, 'async_session') and self.async_session`
HasAsyncSession(a) == a # None

\* a MockModelAdapter.close() that leaves the predefined responses in place
CloseOfKeepingResponses(cls, s, a, r) ==
    IF cls = "MockModelAdapter" THEN Closed(s, a, r, 0, 0, FALSE)
    ELSE Closed("closed", a, r, 1, 0, FALSE)

\* close(): OpenRouterAdapter closes self.session (always set and truthy);
\* MockModelAdapter clears its responses.
CloseOf(cls, s, a, r) ==
    IF cls = "MockModelAdapter" THEN Closed(s, a, {}, 0, 0, FALSE)
    ELSE Closed("closed", a, r, 1, 0, FALSE)

\* an async_close() that also drops the reference: self.async_session = None
AsyncCloseOfResetting(cls, s, a, r) ==
    IF cls = "MockModelAdapter" THEN Closed(s, a, {}, 0, 0, FALSE)
    ELSE IF HasAsyncSession(a) THEN Closed(s, None, r, 0, 1, FALSE)
    ELSE Closed(s, a, r, 0, 0, FALSE)

\* async_close(): OpenRouterAdapter closes self.async_session when there is
\* one (None has no close()); MockModelAdapter clears its responses.
AsyncCloseOf(cls, s, a, r) ==
    IF cls = "MockModelAdapter" THEN Closed(s, a, {}, 0, 0, FALSE)
    ELSE IF HasAsyncSession(a)
         THEN IF a = None THEN Closed(s, a, r, 0, 0, TRUE)
              ELSE Closed(s, "closed", r, 0, 1, FALSE)
         ELSE Closed(s, a, r, 0, 0, FALSE)

ClosingOf(op) ==
    IF op = "close" THEN CloseOf(adapter_class, session, async_session, mock_responses)
    ELSE AsyncCloseOf(adapter_class, session, async_session, mock_responses)

\* the effect of close() / async_close() on the adapter, and its record;
\* mock_last, the latest generate_* call since the adapter was last
\* configured or closed, starts anew
Closing(op) ==
    LET c == ClosingOf(op)
    IN  /\ session' = c.session
        /\ mock_last' = NoMockCall
        /\ async_session' = c.async_session
        /\ mock_responses' = c.responses
        /\ close_rec' = [op |-> op, done |-> close_rec.done \cup {op},
                         repeat |-> op \in close_rec.done, raised |-> c.raised,
                         changed |-> <<c.session, c.async_session, c.responses>>
                                     # <<session, async_session, mock_responses>>]

\* a call of close() or async_close() by the adapter's user
CallClose(op) ==
    /\ Closing(op)
    /\ UNCHANGED <<adapter_class, scope, exit_rec, tasks, sessions_created, ensured,
                   mock_should_fail, mock_exception, mode_calls>>
    /\ UNCHANGED <<avars, cvars, rvars, xvars, pvars, bvars, mvars, looked, chat, pm>>

\* __enter__ / __aenter__: return self
Enter(kind) ==
    /\ scope = "none"
    /\ scope' = kind
    /\ UNCHANGED <<adapter_class, session, async_session, exit_rec, close_rec, tasks,
                   sessions_created, ensured, mock_responses, mock_should_fail,
                   mock_exception, mock_last, mode_calls>>
    /\ UNCHANGED <<avars, cvars, rvars, xvars, pvars, bvars, mvars, looked, chat, pm>>

\* __exit__ that closes only when the body ended without an exception
ExitClosesOnSuccess(exc) == exc = "normal"
\* __exit__ / __aexit__: self.close() / await self.async_close() come first,
\* whatever exc_val is
ExitCloses(exc) == TRUE

\* __exit__ / __aexit__ when the body of the block has ended with exc
Exit(exc) ==
    /\ scope # "none"
    /\ LET op == IF scope = "with" THEN "close" ELSE "async_close"
           c == ClosingOf(op)
       IN  IF ExitCloses(exc)
           THEN /\ Closing(op)
                /\ exit_rec' = [kind |-> scope, exc |-> exc,
                                session_calls |-> c.session_calls,
                                async_calls |-> c.async_calls,
                                had_async |-> async_session # None,
                                session |-> c.session, async_session |-> c.async_session]
           ELSE /\ exit_rec' = [kind |-> scope, exc |-> exc, session_calls |-> 0,
                                async_calls |-> 0, had_async |-> async_session # None,
                                session |-> session, async_session |-> async_session]
                /\ UNCHANGED <<session, async_session, mock_responses, close_rec,
                               mock_last>>
    /\ scope' = "none"
    /\ UNCHANGED <<adapter_class, tasks, sessions_created, ensured, mock_should_fail,
                   mock_exception, mode_calls>>
    /\ UNCHANGED <<avars, cvars, rvars, xvars, pvars, bvars, mvars, looked, chat, pm>>

\* a sync operation of OpenRouterAdapter: self.session.post(...); a closed
\* requests.Session opens its pools again when it is used
SyncUse ==
    /\ adapter_class = "OpenRouterAdapter"
    /\ session' = "open"
    /\ close_rec' = [NoClose EXCEPT !.op = "use"]
    /\ UNCHANGED <<adapter_class, async_session, scope, exit_rec, tasks, sessions_created,
                   ensured, mock_responses, mock_should_fail, mock_exception, mock_last,
                   mode_calls>>
    /\ UNCHANGED <<avars, cvars, rvars, xvars, pvars, bvars, mvars, looked, chat, pm>>

\* an async operation is started as a task on the event loop
AsyncStart(i) ==
    /\ adapter_class = "OpenRouterAdapter"
    /\ tasks[i] = "idle"
    /\ ensured < MaxEnsured
    /\ tasks' = [tasks EXCEPT ![i] = "started"]
    /\ UNCHANGED <<adapter_class, session, async_session, scope, exit_rec, close_rec,
                   sessions_created, ensured, mock_responses, mock_should_fail,
                   mock_exception, mock_last, mode_calls>>
    /\ UNCHANGED <<avars, cvars, rvars, xvars, pvars, bvars, mvars, looked, chat, pm>>

\* ensure_async_session that opens a session on every call
NeedsAsyncSessionAlways(a) == TRUE
\* if self.async_session is None
NeedsAsyncSession(a) == a = None

\* the task runs up to its POST: await self.ensure_async_session(), which has
\* no await inside, so the test and the assignment are one step of the loop;
\* self.async_session.post(...) is then called on the session, open or closed
EnsureAsyncSession(i) ==
    /\ tasks[i] = "started"
    /\ tasks' = [tasks EXCEPT ![i] = IF async_session = "closed" THEN "posting_closed"
                                     ELSE "posting"]
    /\ ensured' = ensured + 1
    /\ IF NeedsAsyncSession(async_session)
       THEN /\ async_session' = "open"
            /\ sessions_created' = sessions_created + 1
            /\ close_rec' = [NoClose EXCEPT !.op = "use"]
       ELSE UNCHANGED <<async_session, sessions_created, close_rec>>
    /\ UNCHANGED <<adapter_class, session, scope, exit_rec, mock_responses,
                   mock_should_fail, mock_exception, mock_last, mode_calls>>
    /\ UNCHANGED <<avars, cvars, rvars, xvars, pvars, bvars, mvars, looked, chat, pm>>

\* the task's operation returns or raises
AsyncEnd(i) ==
    /\ tasks[i] \in {"posting", "posting_closed"}
    /\ tasks' = [tasks EXCEPT ![i] = "idle"]
    /\ UNCHANGED <<adapter_class, session, async_session, scope, exit_rec, close_rec,
                   sessions_created, ensured, mock_responses, mock_should_fail,
                   mock_exception, mock_last, mode_calls>>
    /\ UNCHANGED <<avars, cvars, rvars, xvars, pvars, bvars, mvars, looked, chat, pm>>

\* ---- MockModelAdapter ----

\* set_response(key, response)
SetResponse(key) ==
    /\ adapter_class = "MockModelAdapter"
    /\ mock_responses' = mock_responses \cup {key}
    /\ close_rec' = [NoClose EXCEPT !.op = "use"]
    /\ UNCHANGED <<adapter_class, session, async_session, scope, exit_rec, tasks,
                   sessions_created, ensured, mock_should_fail, mock_exception,
                   mock_last, mode_calls>>
    /\ UNCHANGED <<avars, cvars, rvars, xvars, pvars, bvars, mvars, looked, chat, pm>>

\* set_failure_mode that stores its exception argument also when it is None
StoredExceptionOverwritten(old, e) == e
\* if exception: self._failure_exception = exception
StoredException(old, e) == IF e # None THEN e ELSE old

\* set_failure_mode(should_fail, exception)
SetFailureMode(b, e) ==
    /\ adapter_class = "MockModelAdapter"
    /\ Len(mode_calls) < MaxModeCalls
    /\ mock_should_fail' = b
    /\ mock_exception' = StoredException(mock_exception, e)
    /\ mode_calls' = Append(mode_calls, <<b, e>>)
    /\ mock_last' = NoMockCall
    /\ UNCHANGED <<adapter_class, session, async_session, scope, exit_rec, close_rec,
                   tasks, sessions_created, ensured, mock_responses>>
    /\ UNCHANGED <<avars, cvars, rvars, xvars, pvars, bvars, mvars, looked, chat, pm>>

\* generate_text / generate_chat_completion of the mock; the async forms
\* call the sync ones
MockCall(op, prompt) ==
    /\ adapter_class = "MockModelAdapter"
    /\ mock_last' = IF mock_should_fail /\ mock_exception # None
                    THEN [op |-> op, raised |-> mock_exception, returned |-> FALSE,
                          text |-> ""]
                    ELSE [op |-> op, raised |-> None, returned |-> TRUE,
                          text |-> IF prompt \in mock_responses THEN "configured"
                                   ELSE "default"]
    /\ UNCHANGED <<adapter_class, session, async_session, scope, exit_rec, close_rec,
                   tasks, sessions_created, ensured, mock_responses, mock_should_fail,
                   mock_exception, mode_calls>>
    /\ UNCHANGED <<avars, cvars, rvars, xvars, pvars, bvars, mvars, looked, chat, pm>>

LifecycleNext ==
    \/ \E op \in ClosingOps : CallClose(op)
    \/ \E kind \in Scopes : Enter(kind)
    \/ \E exc \in BodyEnds : Exit(exc)
    \/ SyncUse
    \/ \E i \in 1..MaxTasks : AsyncStart(i)
    \/ \E i \in 1..MaxTasks : EnsureAsyncSession(i)
    \/ \E i \in 1..MaxTasks : AsyncEnd(i)
    \/ \E key \in MockPrompts : SetResponse(key)

\* the MockModelAdapter used inside and outside a with / async with block
MockScopeNext ==
    \/ \E key \in MockPrompts : SetResponse(key)
    \/ \E op \in Operations, prompt \in MockPrompts : MockCall(op, prompt)
    \/ \E op \in ClosingOps : CallClose(op)
    \/ \E kind \in Scopes : Enter(kind)
    \/ \E exc \in BodyEnds : Exit(exc)

\* the MockModelAdapter alone, with its failure mode and its generate_* calls
MockNext ==
    \/ \E key \in MockPrompts : SetResponse(key)
    \/ \E b \in BOOLEAN, e \in MockExceptions \cup {None} : SetFailureMode(b, e)
    \/ \E op \in Operations, prompt \in MockPrompts : MockCall(op, prompt)
    \/ \E op \in ClosingOps : CallClose(op)

(***************************************************************************)
(* MatchingModel: match_user_to_tribes, form_tribes and                     *)
(* calculate_compatibility, from the adapter call to the return.           *)
(***************************************************************************)
MatchingTypes == {"user_tribe", "tribe_formation", "compatibility"}
\* ModelAdapterError and its four subclasses
AdapterErrorClasses ==
    {"ModelAdapterError", "ModelTimeoutError", "ModelAuthenticationError",
     "ModelRateLimitError", "ModelContentFilterError"}
\* what self._model_adapter.generate_text does: it returns a value, or raises
\* an adapter error or (MockModelAdapter in failure mode) any other exception
AdapterReplies ==
    {[kind |-> "text", value |-> v, cls |-> ""] : v \in Replies}
    \cup {[kind |-> "raise", value |-> NotAStr, cls |-> c] :
             c \in AdapterErrorClasses \cup {"ValueError"}}
NoReply == [kind |-> "none", value |-> NotAStr, cls |-> ""]
NoServiceCall == [entry |-> "none", value |-> NotCalled, handled |-> "none"]

EmptyList == Returned("array", <<"[", "]">>)
\* return [] / return {}
EmptyDefault(type) == IF type = "compatibility" THEN EmptyResult ELSE EmptyList

\* the text has the key `name` of an object: "name":
RECURSIVE HasField(_, _)
HasField(canon, name) ==
    /\ Len(canon) >= Len(name) + 3
    /\ \/ (/\ canon[1] = "\"" /\ SubSeq(canon, 2, Len(name) + 1) = name
           /\ canon[Len(name) + 2] = "\"" /\ canon[Len(name) + 3] = ":")
       \/ HasField(Tail(canon), name)

\* validate_matching_response. A list passes when it has no item or every
\* item is a dict with the required fields; of the lists the enumerated
\* replies spell, no item has them, so the list without items passes. A
\* compatibility dict needs 'overall' and 'dimensions'.
ValidateMatchingResponse(res, type) ==
    IF type \in {"user_tribe", "tribe_formation"}
    THEN res.kind = "array" /\ res.canon = <<"[", "]">>
    ELSE /\ res.kind = "object"
         /\ HasField(res.canon, <<"o", "v", "e", "r", "a", "l", "l">>)
         /\ HasField(res.canon, <<"d", "i", "m", "e", "n", "s", "i", "o", "n", "s">>)

\* only `except ModelAdapterError`: another exception leaves the operation
CaughtIfAdapterError(cls) == cls \in AdapterErrorClasses
\* except clauses that name only the other exceptions: an adapter error
\* leaves the operation
CaughtUnlessAdapterError(cls) == cls \notin AdapterErrorClasses
\* except ModelAdapterError ... except Exception: every exception is caught
Caught(cls) == TRUE

\* the try block of the three operations and its except clauses
MatchingOutcome(type, reply) ==
    IF reply.kind = "raise"
    THEN IF Caught(reply.cls) THEN EmptyDefault(type) ELSE Raises
    ELSE LET res == ExtractJsonFromResponse(reply.value)
         IN  IF res.raised
             THEN IF Caught("TypeError") THEN EmptyDefault(type) ELSE Raises
             ELSE IF ~ValidateMatchingResponse(res, type) THEN EmptyDefault(type)
             ELSE res

MatchingCall ==
    /\ ~mm_result.called
    /\ mm_result' = MatchingOutcome(mm_type, mm_reply)
    /\ UNCHANGED <<mm_type, mm_reply, ms_result>>
    /\ UNCHANGED <<avars, cvars, rvars, xvars, pvars, bvars, lvars, looked, chat, pm>>

\* the class of the exception that leaves the try block
RaisedClass(reply) == IF reply.kind = "raise" THEN reply.cls ELSE "TypeError"

\* MatchingModel.perform_matching around the operation's outcome o:
\* `except ValueError: raise`, `except Exception: return [] / {}`
ModelPerformMatching(type, o, cls) ==
    IF o.raised /\ cls # "ValueError" THEN EmptyDefault(type) ELSE o

\* the error type MatchingService.handle_error puts in its response
HandleErrorType(cls) ==
    CASE cls = "ModelTimeoutError" -> "timeout"
      [] cls = "ModelAuthenticationError" -> "authentication"
      [] cls = "ModelRateLimitError" -> "rate_limit"
      [] cls = "ModelContentFilterError" -> "content_filter"
      [] cls = "ModelAdapterError" -> "model_error"
      [] cls = "ValueError" -> "validation_error"
      [] OTHER -> cls
ServiceEntries == {"direct", "perform_matching"}
ErrorResponseOf == Returned("error_response", <<>>)

\* A MatchingService method on valid input, from the cache miss to the
\* return: match_user_to_tribes / form_tribes / calculate_compatibility
\* ("direct": `except Exception: return [] / {}`) or perform_matching
\* (`except Exception: return self.handle_error(e, ...)`), around the
\* MatchingModel call.
ServiceMatching(entry, type, o, cls) ==
    IF entry = "direct"
    THEN [entry |-> entry, value |-> IF o.raised THEN EmptyDefault(type) ELSE o,
          handled |-> "none"]
    ELSE LET p == ModelPerformMatching(type, o, cls)
         IN  IF p.raised
             THEN [entry |-> entry, value |-> ErrorResponseOf,
                   handled |-> HandleErrorType(cls)]
             ELSE [entry |-> entry, value |-> p, handled |-> "none"]

MatchingServiceCall(entry) ==
    /\ ~mm_result.called
    /\ LET o == MatchingOutcome(mm_type, mm_reply)
       IN  /\ mm_result' = o
           /\ ms_result' = ServiceMatching(entry, mm_type, o, RaisedClass(mm_reply))
    /\ UNCHANGED <<mm_type, mm_reply>>
    /\ UNCHANGED <<avars, cvars, rvars, xvars, pvars, bvars, lvars, looked, chat, pm>>

MatchingNext ==
    \/ MatchingCall
    \/ \E entry \in ServiceEntries : MatchingServiceCall(entry)

(***************************************************************************)
(* RecommendationModel.recommend_events and                                *)
(* EngagementModel.generate_conversation_prompt over the chat completion   *)
(* of an adapter, for each assistant content the provider can give.        *)
(***************************************************************************)
\* an array of one prompt item with its two required fields
PromptArray ==
    <<"[", "{", "\"", "p", "r", "o", "m", "p", "t", "\"", ":", "1", ",",
      "\"", "e", "x", "p", "l", "a", "n", "a", "t", "i", "o", "n", "\"", ":", "1",
      "}", "]">>
ChatContents == (Replies \ {NotAStr}) \cup {Str(PromptArray)}
ChatOps == {"recommend_events", "generate_conversation_prompt"}
NoChat == [op |-> "none", adapter |-> "none", content |-> NotAStr, outcome |-> NotCalled]

\* MockModelAdapter.generate_chat_completion returns
\* {"choices": [{"message": {"role": "assistant", "content": ...}}]}
MockChatCompletion(content) ==
    [has_choices |-> TRUE, has_message |-> FALSE, content |-> content]
\* OpenRouterAdapter.generate_chat_completion returns format_chat_response:
\* {'message': <the message of choices[0]>, 'usage': ..., 'metadata': ...}
FormatChatResponse(content) ==
    [has_choices |-> FALSE, has_message |-> TRUE, content |-> content]
GenerateChatCompletion(cls, content) ==
    IF cls = "MockModelAdapter" THEN MockChatCompletion(content)
    ELSE FormatChatResponse(content)

\* response['choices'][0]['message']['content']: KeyError without 'choices'
ReadContent(resp) ==
    IF resp.has_choices THEN [raised |-> FALSE, content |-> resp.content]
    ELSE [raised |-> TRUE, content |-> NotAStr]

\* recommend_events after the adapter call: no try block; a result that is no
\* list gives []
RecommendEvents(cls, content) ==
    LET c == ReadContent(GenerateChatCompletion(cls, content))
    IN  IF c.raised THEN Raises
        ELSE LET res == ExtractJsonFromResponse(c.content)
             IN  IF res.raised THEN Raises
                 ELSE IF res.kind # "array" THEN EmptyList ELSE res

\* the items that are dicts with "prompt" and "explanation": of the contents
\* enumerated, the items of PromptArray
ValidatedPrompts(res) == IF res.canon = PromptArray THEN res ELSE EmptyList

\* generate_conversation_prompt after the adapter call: all in a try block,
\* `except Exception: return []`
GenerateConversationPrompt(cls, content) ==
    LET c == ReadContent(GenerateChatCompletion(cls, content))
    IN  IF c.raised THEN EmptyList
        ELSE LET res == ExtractJsonFromResponse(c.content)
             IN  IF res.raised \/ res.kind # "array" THEN EmptyList
                 ELSE ValidatedPrompts(res)

ChatModelCall(op, cls) ==
    /\ chat.op = "none"
    /\ chat' = [chat EXCEPT !.op = op, !.adapter = cls,
                            !.outcome = IF op = "recommend_events"
                                        THEN RecommendEvents(cls, chat.content)
                                        ELSE GenerateConversationPrompt(cls, chat.content)]
    /\ UNCHANGED <<avars, cvars, rvars, xvars, pvars, bvars, lvars, mvars, looked, pm>>

ChatNext == \E op \in ChatOps, cls \in AdapterClasses : ChatModelCall(op, cls)

(***************************************************************************)
(* prepare_messages: a message is its role and the length of its content;  *)
(* id is its position in the caller's list (0: the message inserted).      *)
(***************************************************************************)
MaxMessages == 2     \* messages in the caller's list
\* "\n[Note: message has been truncated to fit model context window]"
NoteLen == 63
\* the content of the system message inserted for anthropic/ models
SystemPromptLen == 108
\* model_config.get('context_window', 4096)
DefaultContextWindow == 4096
PmModels == {None, "openai/gpt-3.5-turbo", "anthropic/claude-2"}
PmRoles == {"system", "user", "assistant"}
PmLens == {0, 100, 4000, 90000}
Message(r, n, i) == [role |-> r, len |-> n, truncated |-> FALSE, id |-> i]
MessageLists ==
    UNION {{[i \in 1..n |-> Message(f[i][1], f[i][2], i)] :
               f \in [1..n -> PmRoles \X PmLens]} : n \in 0..MaxMessages}
NoPrepare == [called |-> FALSE, model |-> None, arg |-> <<>>, arg_after |-> <<>>,
              out |-> <<>>]

\* MODEL_CONFIGS[model]['context_window']
ContextWindow(model) ==
    CASE model = "openai/gpt-4" -> 8192
      [] model = "openai/gpt-3.5-turbo" -> 4096
      [] model \in {"anthropic/claude-2", "anthropic/claude-instant-1"} -> 100000
      [] OTHER -> DefaultContextWindow
\* int(context_window * 0.9)
Budget(model) == (ContextWindow(model) * 9) \div 10
\* sum(len(msg.get('content', '')) for msg in ...)
RECURSIVE SumLen(_)
SumLen(msgs) == IF msgs = <<>> THEN 0 ELSE Head(msgs).len + SumLen(Tail(msgs))
IsSystem(msg) == msg.role = "system"
IsOther(msg) == msg.role # "system"
\* len(content[:k]): a negative k counts from the end
SliceLen(n, k) == IF k >= 0 THEN (IF k < n THEN k ELSE n)
                  ELSE (IF n + k > 0 THEN n + k ELSE 0)

\* while other_messages and remaining_length <= 0: pop(0) and recompute
RECURSIVE DropOldest(_, _, _)
DropOldest(other, remaining, room) ==
    IF other # <<>> /\ remaining <= 0
    THEN DropOldest(Tail(other), room - SumLen(Tail(other)), room)
    ELSE [other |-> other, remaining |-> remaining]

\* prepare_messages on a valid list: the list returned, and the caller's
\* list afterwards (messages.copy() is a shallow copy: the dicts are shared,
\* and oldest_msg['content'] = ... assigns into the caller's dict)
PrepareMessages(msgs, m) ==
    LET model == ModelOrDefault(m)
        over == SumLen(msgs) * 10 > ContextWindow(model) * 9
        sys == SelectSeq(msgs, IsSystem)
        room == Budget(model) - SumLen(sys)
        d == DropOldest(SelectSeq(msgs, IsOther), room, room)
        trunc == over /\ d.other # <<>> /\ d.remaining < SumLen(d.other)
        oldest == Head(d.other)
        cut == [oldest EXCEPT
                   !.len = SliceLen(oldest.len, d.remaining - SumLen(Tail(d.other)))
                           + NoteLen,
                   !.truncated = TRUE]
        other == IF trunc THEN <<cut>> \o Tail(d.other) ELSE d.other
        optimized == IF over THEN sys \o other ELSE msgs
        has_system == \E i \in 1..Len(optimized) : IsSystem(optimized[i])
        anthropic == model \in {"anthropic/claude-2", "anthropic/claude-instant-1"}
    IN  [out |-> IF ~has_system /\ anthropic
                 THEN <<Message("system", SystemPromptLen, 0)>> \o optimized
                 ELSE optimized,
         arg_after |-> IF trunc
                       THEN [i \in 1..Len(msgs) |->
                                IF msgs[i].id = oldest.id THEN cut ELSE msgs[i]]
                       ELSE msgs]

PrepareMessagesCall ==
    /\ ~pm.called
    /\ LET r == PrepareMessages(pm.arg, pm.model)
       IN  pm' = [pm EXCEPT !.called = TRUE, !.out = r.out, !.arg_after = r.arg_after]
    /\ UNCHANGED <<avars, cvars, rvars, xvars, pvars, bvars, lvars, mvars, looked, chat>>

MessagesNext == PrepareMessagesCall

(***************************************************************************)
(* get_cached_result, cache_result and clear_cache of MatchingService and   *)
(* PersonalityService as operations on the dict self._cache, whatever it    *)
(* holds.                                                                   *)
(***************************************************************************)
NoLookup == [valid |-> FALSE, key |-> GenerateCacheKey("", "", "", ""),
             before |-> EmptyCache, after |-> EmptyCache, value |-> None, time |-> 0]

\* the dicts self._cache can be: entries stored at time 0 under the keys of
\* the service
CacheContents ==
    {c \in [Keys -> {NoEntry, Entry("r1", 0)}] :
        \A k \in Keys : c[k].present => k \in Requests(service)}

\* get_cached_result(cache_key)
Lookup(k) ==
    /\ cache' = GetCachedResult(cache, k).cache
    /\ looked' = [valid |-> TRUE, key |-> k, before |-> cache,
                  after |-> GetCachedResult(cache, k).cache,
                  value |-> GetCachedResult(cache, k).value, time |-> now]
    /\ UNCHANGED <<service, cache_enabled, cache_ttl, now, model_calls, stored, last_call>>
    /\ UNCHANGED <<avars, rvars, xvars, pvars, bvars, lvars, mvars, chat, pm>>

\* cache_result(cache_key, result)
Store(k, r) ==
    /\ cache' = CacheResult(cache, k, r)
    /\ looked' = NoLookup
    /\ UNCHANGED <<service, cache_enabled, cache_ttl, now, model_calls, stored, last_call>>
    /\ UNCHANGED <<avars, rvars, xvars, pvars, bvars, lvars, mvars, chat, pm>>

LookupNext ==
    \/ \E k \in Requests(service) : Lookup(k)
    \/ \E k \in Requests(service) : Store(k, "r1")
    \/ ClearCache
    \/ CacheTick

(***************************************************************************)
(* The specifications. Each leaves the variables of the other parts at     *)
(* their initial values.                                                   *)
(***************************************************************************)
\* OpenRouterAdapter: one adapter, one call at a time.
AdapterInit ==
    /\ max_retries \in 0..MaxRetries
    /\ retry_delay \in 1..MaxDelay
    /\ timeout \in Timeouts
    /\ pc = "idle"
    /\ operation = "none"
    /\ model_name = None
    /\ retries = 0
    /\ posts = 0
    /\ sleeps = <<>>
    /\ last_error = NoError
    /\ all_retryable = TRUE
    /\ raised = NoRaised
    /\ messages = NoMessages /\ payload = NoPayload /\ elapsed = 0 /\ result = NoResult
    /\ answers = NoAnswers
    /\ service = "matching" /\ cache = EmptyCache /\ model_calls = 0
    /\ stored = [k \in Keys |-> NoStored] /\ last_call = NoCall
    /\ cache_enabled = TRUE /\ cache_ttl = 1 /\ now = 0
    /\ rec_cache = [k \in RecKeys |-> NoRec] /\ rec_created = [k \in RecKeys |-> 0]
    /\ rec_owner = [k \in RecKeys |-> NoRec]
    /\ rec_stats = [t \in RecTypes |-> ZeroStats] /\ rec_last = NoRecCall
    /\ rec_done = [t \in RecTypes |-> NoneDone]
    /\ response = NotAStr /\ extracted = NotCalled
    /\ parameters = NoParameters /\ params_model = None
    /\ prepared = NotPrepared /\ prepared_again = NotPrepared
    /\ batch_kind = "none" /\ batch_inputs = <<>> /\ batch_state = <<>>
    /\ batch_results = <<>> /\ batch_cache = EmptyBatchCache /\ batch_out = NotReturned
    /\ adapter_class = "OpenRouterAdapter" /\ session = "open" /\ async_session = None
    /\ scope = "none" /\ exit_rec = NoExit /\ close_rec = NoClose
    /\ tasks = [i \in 1..MaxTasks |-> "idle"] /\ sessions_created = 0 /\ ensured = 0
    /\ mock_responses = {} /\ mock_should_fail = FALSE /\ mock_exception = None
    /\ mock_last = NoMockCall /\ mode_calls = <<>>
    /\ mm_type = "none" /\ mm_reply = NoReply /\ mm_result = NotCalled
    /\ ms_result = NoServiceCall
    /\ looked = NoLookup /\ chat = NoChat /\ pm = NoPrepare

SpecAdapter == AdapterInit /\ [][AdapterNext]_vars
\* A POST ends (it has a timeout) and a sleep ends.
SpecAdapterFair ==
    SpecAdapter /\ WF_vars(AttemptFails \/ AttemptAnswered) /\ WF_vars(SleepDone)

\* MatchingService / PersonalityService: one service and its cache.
CacheInit ==
    /\ service \in Services
    /\ cache_enabled \in BOOLEAN
    /\ cache_ttl \in 1..MaxTTL
    /\ cache = EmptyCache
    /\ now = 0
    /\ model_calls = 0
    /\ stored = [k \in Keys |-> NoStored]
    /\ last_call = NoCall
    /\ max_retries = 0 /\ retry_delay = 1 /\ timeout = MODEL_TIMEOUT /\ pc = "idle"
    /\ operation = "none" /\ model_name = None /\ retries = 0 /\ posts = 0
    /\ sleeps = <<>> /\ last_error = NoError /\ all_retryable = TRUE
    /\ raised = NoRaised
    /\ messages = NoMessages /\ payload = NoPayload /\ elapsed = 0 /\ result = NoResult
    /\ answers = NoAnswers
    /\ rec_cache = [k \in RecKeys |-> NoRec] /\ rec_created = [k \in RecKeys |-> 0]
    /\ rec_owner = [k \in RecKeys |-> NoRec]
    /\ rec_stats = [t \in RecTypes |-> ZeroStats] /\ rec_last = NoRecCall
    /\ rec_done = [t \in RecTypes |-> NoneDone]
    /\ response = NotAStr /\ extracted = NotCalled
    /\ parameters = NoParameters /\ params_model = None
    /\ prepared = NotPrepared /\ prepared_again = NotPrepared
    /\ batch_kind = "none" /\ batch_inputs = <<>> /\ batch_state = <<>>
    /\ batch_results = <<>> /\ batch_cache = EmptyBatchCache /\ batch_out = NotReturned
    /\ adapter_class = "OpenRouterAdapter" /\ session = "open" /\ async_session = None
    /\ scope = "none" /\ exit_rec = NoExit /\ close_rec = NoClose
    /\ tasks = [i \in 1..MaxTasks |-> "idle"] /\ sessions_created = 0 /\ ensured = 0
    /\ mock_responses = {} /\ mock_should_fail = FALSE /\ mock_exception = None
    /\ mock_last = NoMockCall /\ mode_calls = <<>>
    /\ mm_type = "none" /\ mm_reply = NoReply /\ mm_result = NotCalled
    /\ ms_result = NoServiceCall
    /\ looked = NoLookup /\ chat = NoChat /\ pm = NoPrepare

SpecCache == CacheInit /\ [][CacheNext]_vars

\* RecommendationService: one service and its cache.
RecInit ==
    /\ cache_enabled \in BOOLEAN
    /\ cache_ttl \in 1..MaxTTL
    /\ now = 0
    /\ rec_cache = [k \in RecKeys |-> NoRec]
    /\ rec_created = [k \in RecKeys |-> 0]
    /\ rec_owner = [k \in RecKeys |-> NoRec]
    /\ rec_stats = [t \in RecTypes |-> ZeroStats]
    /\ rec_last = NoRecCall
    /\ rec_done = [t \in RecTypes |-> NoneDone]
    /\ max_retries = 0 /\ retry_delay = 1 /\ timeout = MODEL_TIMEOUT /\ pc = "idle"
    /\ operation = "none" /\ model_name = None /\ retries = 0 /\ posts = 0
    /\ sleeps = <<>> /\ last_error = NoError /\ all_retryable = TRUE
    /\ raised = NoRaised
    /\ messages = NoMessages /\ payload = NoPayload /\ elapsed = 0 /\ result = NoResult
    /\ answers = NoAnswers
    /\ service = "matching" /\ cache = EmptyCache /\ model_calls = 0
    /\ stored = [k \in Keys |-> NoStored] /\ last_call = NoCall
    /\ response = NotAStr /\ extracted = NotCalled
    /\ parameters = NoParameters /\ params_model = None
    /\ prepared = NotPrepared /\ prepared_again = NotPrepared
    /\ batch_kind = "none" /\ batch_inputs = <<>> /\ batch_state = <<>>
    /\ batch_results = <<>> /\ batch_cache = EmptyBatchCache /\ batch_out = NotReturned
    /\ adapter_class = "OpenRouterAdapter" /\ session = "open" /\ async_session = None
    /\ scope = "none" /\ exit_rec = NoExit /\ close_rec = NoClose
    /\ tasks = [i \in 1..MaxTasks |-> "idle"] /\ sessions_created = 0 /\ ensured = 0
    /\ mock_responses = {} /\ mock_should_fail = FALSE /\ mock_exception = None
    /\ mock_last = NoMockCall /\ mode_calls = <<>>
    /\ mm_type = "none" /\ mm_reply = NoReply /\ mm_result = NotCalled
    /\ ms_result = NoServiceCall
    /\ looked = NoLookup /\ chat = NoChat /\ pm = NoPrepare

SpecRec == RecInit /\ [][RecNext]_vars

\* The calls and the statistics alone: RecommendationService reads no clock.
StatsInit == RecInit /\ cache_ttl = 1
StatsNext ==
    \/ \E req \in RecRequests : Recommend(req)
    \/ \E t \in RecTypes \cup {None} : RecClearCache(t)
SpecStats == StatsInit /\ [][StatsNext]_vars

\* extract_json_from_response over the replies.
ExtractInit ==
    /\ response \in Replies
    /\ extracted = NotCalled
    /\ max_retries = 0 /\ retry_delay = 1 /\ timeout = MODEL_TIMEOUT /\ pc = "idle"
    /\ operation = "none" /\ model_name = None /\ retries = 0 /\ posts = 0
    /\ sleeps = <<>> /\ last_error = NoError /\ all_retryable = TRUE
    /\ raised = NoRaised
    /\ messages = NoMessages /\ payload = NoPayload /\ elapsed = 0 /\ result = NoResult
    /\ answers = NoAnswers
    /\ service = "matching" /\ cache = EmptyCache /\ model_calls = 0
    /\ stored = [k \in Keys |-> NoStored] /\ last_call = NoCall
    /\ cache_enabled = TRUE /\ cache_ttl = 1 /\ now = 0
    /\ rec_cache = [k \in RecKeys |-> NoRec] /\ rec_created = [k \in RecKeys |-> 0]
    /\ rec_owner = [k \in RecKeys |-> NoRec]
    /\ rec_stats = [t \in RecTypes |-> ZeroStats] /\ rec_last = NoRecCall
    /\ rec_done = [t \in RecTypes |-> NoneDone]
    /\ parameters = NoParameters /\ params_model = None
    /\ prepared = NotPrepared /\ prepared_again = NotPrepared
    /\ batch_kind = "none" /\ batch_inputs = <<>> /\ batch_state = <<>>
    /\ batch_results = <<>> /\ batch_cache = EmptyBatchCache /\ batch_out = NotReturned
    /\ adapter_class = "OpenRouterAdapter" /\ session = "open" /\ async_session = None
    /\ scope = "none" /\ exit_rec = NoExit /\ close_rec = NoClose
    /\ tasks = [i \in 1..MaxTasks |-> "idle"] /\ sessions_created = 0 /\ ensured = 0
    /\ mock_responses = {} /\ mock_should_fail = FALSE /\ mock_exception = None
    /\ mock_last = NoMockCall /\ mode_calls = <<>>
    /\ mm_type = "none" /\ mm_reply = NoReply /\ mm_result = NotCalled
    /\ ms_result = NoServiceCall
    /\ looked = NoLookup /\ chat = NoChat /\ pm = NoPrepare

SpecExtract == ExtractInit /\ [][ExtractNext]_vars

\* One call of a model operation, for each assistant content and adapter.
ChatInit ==
    /\ response = NotAStr
    /\ extracted = NotCalled
    /\ max_retries = 0 /\ retry_delay = 1 /\ timeout = MODEL_TIMEOUT /\ pc = "idle"
    /\ operation = "none" /\ model_name = None /\ retries = 0 /\ posts = 0
    /\ sleeps = <<>> /\ last_error = NoError /\ all_retryable = TRUE
    /\ raised = NoRaised
    /\ messages = NoMessages /\ payload = NoPayload /\ elapsed = 0 /\ result = NoResult
    /\ answers = NoAnswers
    /\ service = "matching" /\ cache = EmptyCache /\ model_calls = 0
    /\ stored = [k \in Keys |-> NoStored] /\ last_call = NoCall
    /\ cache_enabled = TRUE /\ cache_ttl = 1 /\ now = 0
    /\ rec_cache = [k \in RecKeys |-> NoRec] /\ rec_created = [k \in RecKeys |-> 0]
    /\ rec_owner = [k \in RecKeys |-> NoRec]
    /\ rec_stats = [t \in RecTypes |-> ZeroStats] /\ rec_last = NoRecCall
    /\ rec_done = [t \in RecTypes |-> NoneDone]
    /\ parameters = NoParameters /\ params_model = None
    /\ prepared = NotPrepared /\ prepared_again = NotPrepared
    /\ batch_kind = "none" /\ batch_inputs = <<>> /\ batch_state = <<>>
    /\ batch_results = <<>> /\ batch_cache = EmptyBatchCache /\ batch_out = NotReturned
    /\ adapter_class = "OpenRouterAdapter" /\ session = "open" /\ async_session = None
    /\ scope = "none" /\ exit_rec = NoExit /\ close_rec = NoClose
    /\ tasks = [i \in 1..MaxTasks |-> "idle"] /\ sessions_created = 0 /\ ensured = 0
    /\ mock_responses = {} /\ mock_should_fail = FALSE /\ mock_exception = None
    /\ mock_last = NoMockCall /\ mode_calls = <<>>
    /\ mm_type = "none" /\ mm_reply = NoReply /\ mm_result = NotCalled
    /\ ms_result = NoServiceCall
    /\ looked = NoLookup /\ chat \in {[NoChat EXCEPT !.content = c] : c \in ChatContents}
    /\ pm = NoPrepare

SpecChat == ChatInit /\ [][ChatNext]_vars

\* One call of prepare_messages, for each valid list and model name.
MessagesInit ==
    /\ response = NotAStr
    /\ extracted = NotCalled
    /\ max_retries = 0 /\ retry_delay = 1 /\ timeout = MODEL_TIMEOUT /\ pc = "idle"
    /\ operation = "none" /\ model_name = None /\ retries = 0 /\ posts = 0
    /\ sleeps = <<>> /\ last_error = NoError /\ all_retryable = TRUE
    /\ raised = NoRaised
    /\ messages = NoMessages /\ payload = NoPayload /\ elapsed = 0 /\ result = NoResult
    /\ answers = NoAnswers
    /\ service = "matching" /\ cache = EmptyCache /\ model_calls = 0
    /\ stored = [k \in Keys |-> NoStored] /\ last_call = NoCall
    /\ cache_enabled = TRUE /\ cache_ttl = 1 /\ now = 0
    /\ rec_cache = [k \in RecKeys |-> NoRec] /\ rec_created = [k \in RecKeys |-> 0]
    /\ rec_owner = [k \in RecKeys |-> NoRec]
    /\ rec_stats = [t \in RecTypes |-> ZeroStats] /\ rec_last = NoRecCall
    /\ rec_done = [t \in RecTypes |-> NoneDone]
    /\ parameters = NoParameters /\ params_model = None
    /\ prepared = NotPrepared /\ prepared_again = NotPrepared
    /\ batch_kind = "none" /\ batch_inputs = <<>> /\ batch_state = <<>>
    /\ batch_results = <<>> /\ batch_cache = EmptyBatchCache /\ batch_out = NotReturned
    /\ adapter_class = "OpenRouterAdapter" /\ session = "open" /\ async_session = None
    /\ scope = "none" /\ exit_rec = NoExit /\ close_rec = NoClose
    /\ tasks = [i \in 1..MaxTasks |-> "idle"] /\ sessions_created = 0 /\ ensured = 0
    /\ mock_responses = {} /\ mock_should_fail = FALSE /\ mock_exception = None
    /\ mock_last = NoMockCall /\ mode_calls = <<>>
    /\ mm_type = "none" /\ mm_reply = NoReply /\ mm_result = NotCalled
    /\ ms_result = NoServiceCall
    /\ looked = NoLookup /\ chat = NoChat
    /\ pm \in {[NoPrepare EXCEPT !.arg = msgs, !.arg_after = msgs, !.model = m] :
                 msgs \in MessageLists, m \in PmModels}

SpecMessages == MessagesInit /\ [][MessagesNext]_vars

\* prepare_parameters over the parameter sets.
ParamsInit ==
    /\ parameters \in ParameterSets
    /\ params_model \in ModelNames
    /\ prepared = NotPrepared /\ prepared_again = NotPrepared
    /\ max_retries = 0 /\ retry_delay = 1 /\ timeout = MODEL_TIMEOUT /\ pc = "idle"
    /\ operation = "none" /\ model_name = None /\ retries = 0 /\ posts = 0
    /\ sleeps = <<>> /\ last_error = NoError /\ all_retryable = TRUE
    /\ raised = NoRaised
    /\ messages = NoMessages /\ payload = NoPayload /\ elapsed = 0 /\ result = NoResult
    /\ answers = NoAnswers
    /\ service = "matching" /\ cache = EmptyCache /\ model_calls = 0
    /\ stored = [k \in Keys |-> NoStored] /\ last_call = NoCall
    /\ cache_enabled = TRUE /\ cache_ttl = 1 /\ now = 0
    /\ rec_cache = [k \in RecKeys |-> NoRec] /\ rec_created = [k \in RecKeys |-> 0]
    /\ rec_owner = [k \in RecKeys |-> NoRec]
    /\ rec_stats = [t \in RecTypes |-> ZeroStats] /\ rec_last = NoRecCall
    /\ rec_done = [t \in RecTypes |-> NoneDone]
    /\ response = NotAStr /\ extracted = NotCalled
    /\ batch_kind = "none" /\ batch_inputs = <<>> /\ batch_state = <<>>
    /\ batch_results = <<>> /\ batch_cache = EmptyBatchCache /\ batch_out = NotReturned
    /\ adapter_class = "OpenRouterAdapter" /\ session = "open" /\ async_session = None
    /\ scope = "none" /\ exit_rec = NoExit /\ close_rec = NoClose
    /\ tasks = [i \in 1..MaxTasks |-> "idle"] /\ sessions_created = 0 /\ ensured = 0
    /\ mock_responses = {} /\ mock_should_fail = FALSE /\ mock_exception = None
    /\ mock_last = NoMockCall /\ mode_calls = <<>>
    /\ mm_type = "none" /\ mm_reply = NoReply /\ mm_result = NotCalled
    /\ ms_result = NoServiceCall
    /\ looked = NoLookup /\ chat = NoChat /\ pm = NoPrepare

SpecParams == ParamsInit /\ [][ParamsNext]_vars

\* The batch operations of one RecommendationService / MatchingModel.
BatchInit ==
    /\ batch_kind = "none" /\ batch_inputs = <<>> /\ batch_state = <<>>
    /\ batch_results = <<>> /\ batch_cache = EmptyBatchCache /\ batch_out = NotReturned
    /\ adapter_class = "OpenRouterAdapter" /\ session = "open" /\ async_session = None
    /\ scope = "none" /\ exit_rec = NoExit /\ close_rec = NoClose
    /\ tasks = [i \in 1..MaxTasks |-> "idle"] /\ sessions_created = 0 /\ ensured = 0
    /\ mock_responses = {} /\ mock_should_fail = FALSE /\ mock_exception = None
    /\ mock_last = NoMockCall /\ mode_calls = <<>>
    /\ mm_type = "none" /\ mm_reply = NoReply /\ mm_result = NotCalled
    /\ ms_result = NoServiceCall
    /\ looked = NoLookup /\ chat = NoChat /\ pm = NoPrepare
    /\ cache_enabled \in BOOLEAN
    /\ max_retries = 0 /\ retry_delay = 1 /\ timeout = MODEL_TIMEOUT /\ pc = "idle"
    /\ operation = "none" /\ model_name = None /\ retries = 0 /\ posts = 0
    /\ sleeps = <<>> /\ last_error = NoError /\ all_retryable = TRUE
    /\ raised = NoRaised
    /\ messages = NoMessages /\ payload = NoPayload /\ elapsed = 0 /\ result = NoResult
    /\ answers = NoAnswers
    /\ service = "matching" /\ cache = EmptyCache /\ model_calls = 0
    /\ stored = [k \in Keys |-> NoStored] /\ last_call = NoCall
    /\ cache_ttl = 1 /\ now = 0
    /\ rec_cache = [k \in RecKeys |-> NoRec] /\ rec_created = [k \in RecKeys |-> 0]
    /\ rec_owner = [k \in RecKeys |-> NoRec]
    /\ rec_stats = [t \in RecTypes |-> ZeroStats] /\ rec_last = NoRecCall
    /\ rec_done = [t \in RecTypes |-> NoneDone]
    /\ response = NotAStr /\ extracted = NotCalled
    /\ parameters = NoParameters /\ params_model = None
    /\ prepared = NotPrepared /\ prepared_again = NotPrepared

SpecBatch == BatchInit /\ [][BatchNext]_vars

\* An adapter after construction: OpenRouterAdapter has its requests.Session
\* and no async session; MockModelAdapter has the responses of its config.
LifecycleInit ==
    /\ adapter_class \in AdapterClasses
    /\ session = "open" /\ async_session = None
    /\ scope = "none" /\ exit_rec = NoExit /\ close_rec = NoClose
    /\ tasks = [i \in 1..MaxTasks |-> "idle"] /\ sessions_created = 0 /\ ensured = 0
    /\ mock_responses \in SUBSET MockPrompts
    /\ mock_should_fail = FALSE /\ mock_exception = None
    /\ mock_last = NoMockCall /\ mode_calls = <<>>
    /\ mm_type = "none" /\ mm_reply = NoReply /\ mm_result = NotCalled
    /\ ms_result = NoServiceCall
    /\ looked = NoLookup /\ chat = NoChat /\ pm = NoPrepare
    /\ max_retries = 0 /\ retry_delay = 1 /\ timeout = MODEL_TIMEOUT /\ pc = "idle"
    /\ operation = "none" /\ model_name = None /\ retries = 0 /\ posts = 0
    /\ sleeps = <<>> /\ last_error = NoError /\ all_retryable = TRUE
    /\ raised = NoRaised
    /\ messages = NoMessages /\ payload = NoPayload /\ elapsed = 0 /\ result = NoResult
    /\ answers = NoAnswers
    /\ service = "matching" /\ cache_enabled = TRUE /\ cache_ttl = 1 /\ cache = EmptyCache
    /\ now = 0 /\ model_calls = 0
    /\ stored = [k \in Keys |-> NoStored] /\ last_call = NoCall
    /\ rec_cache = [k \in RecKeys |-> NoRec] /\ rec_created = [k \in RecKeys |-> 0]
    /\ rec_owner = [k \in RecKeys |-> NoRec]
    /\ rec_stats = [t \in RecTypes |-> ZeroStats] /\ rec_last = NoRecCall
    /\ rec_done = [t \in RecTypes |-> NoneDone]
    /\ response = NotAStr /\ extracted = NotCalled
    /\ parameters = NoParameters /\ params_model = None
    /\ prepared = NotPrepared /\ prepared_again = NotPrepared
    /\ batch_kind = "none" /\ batch_inputs = <<>> /\ batch_state = <<>>
    /\ batch_results = <<>> /\ batch_cache = EmptyBatchCache /\ batch_out = NotReturned

SpecLifecycle == LifecycleInit /\ [][LifecycleNext]_vars

\* A MockModelAdapter after construction with the default failure settings.
MockInit ==
    /\ adapter_class = "MockModelAdapter"
    /\ session = "open" /\ async_session = None
    /\ scope = "none" /\ exit_rec = NoExit /\ close_rec = NoClose
    /\ tasks = [i \in 1..MaxTasks |-> "idle"] /\ sessions_created = 0 /\ ensured = 0
    /\ mock_responses \in SUBSET MockPrompts
    /\ mock_should_fail = FALSE /\ mock_exception = None
    /\ mock_last = NoMockCall /\ mode_calls = <<>>
    /\ mm_type = "none" /\ mm_reply = NoReply /\ mm_result = NotCalled
    /\ ms_result = NoServiceCall
    /\ looked = NoLookup /\ chat = NoChat /\ pm = NoPrepare
    /\ max_retries = 0 /\ retry_delay = 1 /\ timeout = MODEL_TIMEOUT /\ pc = "idle"
    /\ operation = "none" /\ model_name = None /\ retries = 0 /\ posts = 0
    /\ sleeps = <<>> /\ last_error = NoError /\ all_retryable = TRUE
    /\ raised = NoRaised
    /\ messages = NoMessages /\ payload = NoPayload /\ elapsed = 0 /\ result = NoResult
    /\ answers = NoAnswers
    /\ service = "matching" /\ cache_enabled = TRUE /\ cache_ttl = 1 /\ cache = EmptyCache
    /\ now = 0 /\ model_calls = 0
    /\ stored = [k \in Keys |-> NoStored] /\ last_call = NoCall
    /\ rec_cache = [k \in RecKeys |-> NoRec] /\ rec_created = [k \in RecKeys |-> 0]
    /\ rec_owner = [k \in RecKeys |-> NoRec]
    /\ rec_stats = [t \in RecTypes |-> ZeroStats] /\ rec_last = NoRecCall
    /\ rec_done = [t \in RecTypes |-> NoneDone]
    /\ response = NotAStr /\ extracted = NotCalled
    /\ parameters = NoParameters /\ params_model = None
    /\ prepared = NotPrepared /\ prepared_again = NotPrepared
    /\ batch_kind = "none" /\ batch_inputs = <<>> /\ batch_state = <<>>
    /\ batch_results = <<>> /\ batch_cache = EmptyBatchCache /\ batch_out = NotReturned

SpecMock == MockInit /\ [][MockNext]_vars

\* A MockModelAdapter after construction from a config that may give
\* responses, should_fail and failure_exception.
MockScopeInit ==
    /\ adapter_class = "MockModelAdapter"
    /\ session = "open" /\ async_session = None
    /\ scope = "none" /\ exit_rec = NoExit /\ close_rec = NoClose
    /\ tasks = [i \in 1..MaxTasks |-> "idle"] /\ sessions_created = 0 /\ ensured = 0
    /\ mock_responses \in SUBSET MockPrompts
    /\ mock_should_fail \in BOOLEAN /\ mock_exception \in MockExceptions \cup {None}
    /\ mock_last = NoMockCall /\ mode_calls = <<>>
    /\ mm_type = "none" /\ mm_reply = NoReply /\ mm_result = NotCalled
    /\ ms_result = NoServiceCall
    /\ looked = NoLookup /\ chat = NoChat /\ pm = NoPrepare
    /\ max_retries = 0 /\ retry_delay = 1 /\ timeout = MODEL_TIMEOUT /\ pc = "idle"
    /\ operation = "none" /\ model_name = None /\ retries = 0 /\ posts = 0
    /\ sleeps = <<>> /\ last_error = NoError /\ all_retryable = TRUE
    /\ raised = NoRaised
    /\ messages = NoMessages /\ payload = NoPayload /\ elapsed = 0 /\ result = NoResult
    /\ answers = NoAnswers
    /\ service = "matching" /\ cache_enabled = TRUE /\ cache_ttl = 1 /\ cache = EmptyCache
    /\ now = 0 /\ model_calls = 0
    /\ stored = [k \in Keys |-> NoStored] /\ last_call = NoCall
    /\ rec_cache = [k \in RecKeys |-> NoRec] /\ rec_created = [k \in RecKeys |-> 0]
    /\ rec_owner = [k \in RecKeys |-> NoRec]
    /\ rec_stats = [t \in RecTypes |-> ZeroStats] /\ rec_last = NoRecCall
    /\ rec_done = [t \in RecTypes |-> NoneDone]
    /\ response = NotAStr /\ extracted = NotCalled
    /\ parameters = NoParameters /\ params_model = None
    /\ prepared = NotPrepared /\ prepared_again = NotPrepared
    /\ batch_kind = "none" /\ batch_inputs = <<>> /\ batch_state = <<>>
    /\ batch_results = <<>> /\ batch_cache = EmptyBatchCache /\ batch_out = NotReturned

SpecMockScope == MockScopeInit /\ [][MockScopeNext]_vars

\* One call of a MatchingModel operation, for each reply of the adapter.
MatchingInit ==
    /\ adapter_class = "OpenRouterAdapter"
    /\ session = "open" /\ async_session = None
    /\ scope = "none" /\ exit_rec = NoExit /\ close_rec = NoClose
    /\ tasks = [i \in 1..MaxTasks |-> "idle"] /\ sessions_created = 0 /\ ensured = 0
    /\ mock_responses = {}
    /\ mock_should_fail = FALSE /\ mock_exception = None
    /\ mock_last = NoMockCall /\ mode_calls = <<>>
    /\ mm_type \in MatchingTypes /\ mm_reply \in AdapterReplies /\ mm_result = NotCalled
    /\ ms_result = NoServiceCall
    /\ looked = NoLookup /\ chat = NoChat /\ pm = NoPrepare
    /\ max_retries = 0 /\ retry_delay = 1 /\ timeout = MODEL_TIMEOUT /\ pc = "idle"
    /\ operation = "none" /\ model_name = None /\ retries = 0 /\ posts = 0
    /\ sleeps = <<>> /\ last_error = NoError /\ all_retryable = TRUE
    /\ raised = NoRaised
    /\ messages = NoMessages /\ payload = NoPayload /\ elapsed = 0 /\ result = NoResult
    /\ answers = NoAnswers
    /\ service = "matching" /\ cache_enabled = TRUE /\ cache_ttl = 1 /\ cache = EmptyCache
    /\ now = 0 /\ model_calls = 0
    /\ stored = [k \in Keys |-> NoStored] /\ last_call = NoCall
    /\ rec_cache = [k \in RecKeys |-> NoRec] /\ rec_created = [k \in RecKeys |-> 0]
    /\ rec_owner = [k \in RecKeys |-> NoRec]
    /\ rec_stats = [t \in RecTypes |-> ZeroStats] /\ rec_last = NoRecCall
    /\ rec_done = [t \in RecTypes |-> NoneDone]
    /\ response = NotAStr /\ extracted = NotCalled
    /\ parameters = NoParameters /\ params_model = None
    /\ prepared = NotPrepared /\ prepared_again = NotPrepared
    /\ batch_kind = "none" /\ batch_inputs = <<>> /\ batch_state = <<>>
    /\ batch_results = <<>> /\ batch_cache = EmptyBatchCache /\ batch_out = NotReturned

SpecMatching == MatchingInit /\ [][MatchingNext]_vars

\* A service whose cache dict holds any entries, or none.
LookupInit ==
    /\ adapter_class = "OpenRouterAdapter"
    /\ session = "open" /\ async_session = None
    /\ scope = "none" /\ exit_rec = NoExit /\ close_rec = NoClose
    /\ tasks = [i \in 1..MaxTasks |-> "idle"] /\ sessions_created = 0 /\ ensured = 0
    /\ mock_responses = {}
    /\ mock_should_fail = FALSE /\ mock_exception = None
    /\ mock_last = NoMockCall /\ mode_calls = <<>>
    /\ mm_type = "none" /\ mm_reply = NoReply /\ mm_result = NotCalled
    /\ ms_result = NoServiceCall
    /\ looked = NoLookup /\ chat = NoChat /\ pm = NoPrepare
    /\ max_retries = 0 /\ retry_delay = 1 /\ timeout = MODEL_TIMEOUT /\ pc = "idle"
    /\ operation = "none" /\ model_name = None /\ retries = 0 /\ posts = 0
    /\ sleeps = <<>> /\ last_error = NoError /\ all_retryable = TRUE
    /\ raised = NoRaised
    /\ messages = NoMessages /\ payload = NoPayload /\ elapsed = 0 /\ result = NoResult
    /\ answers = NoAnswers
    /\ service \in Services /\ cache_enabled \in BOOLEAN /\ cache_ttl \in 1..MaxTTL
    /\ cache \in IF cache_enabled THEN CacheContents ELSE {EmptyCache}
    /\ now = 0 /\ model_calls = 0
    /\ stored = [k \in Keys |-> NoStored] /\ last_call = NoCall
    /\ rec_cache = [k \in RecKeys |-> NoRec] /\ rec_created = [k \in RecKeys |-> 0]
    /\ rec_owner = [k \in RecKeys |-> NoRec]
    /\ rec_stats = [t \in RecTypes |-> ZeroStats] /\ rec_last = NoRecCall
    /\ rec_done = [t \in RecTypes |-> NoneDone]
    /\ response = NotAStr /\ extracted = NotCalled
    /\ parameters = NoParameters /\ params_model = None
    /\ prepared = NotPrepared /\ prepared_again = NotPrepared
    /\ batch_kind = "none" /\ batch_inputs = <<>> /\ batch_state = <<>>
    /\ batch_results = <<>> /\ batch_cache = EmptyBatchCache /\ batch_out = NotReturned

SpecLookup == LookupInit /\ [][LookupNext]_vars

C2_NonRetryableRaisesAtOnce ==
    NonRetryableFailure(last_error) => pc \notin {"sleeping", "attempt", "returned"}

\* C3: with caching enabled, a call of perform_matching / perform_analysis
\* whose request equals that of an earlier call made at most cache_ttl seconds
\* before makes no call to the model and returns the earlier call's result.
C3_SecondCallServedFromCache ==
    (/\ cache_enabled /\ last_call.valid
     /\ last_call.had /\ Truthy(last_call.prev_result)
     /\ last_call.time - last_call.prev_time <= cache_ttl) =>
        /\ ~last_call.called_model
        /\ last_call.result = last_call.prev_result

\* C4: a lookup more than cache_ttl seconds after the entry was stored is a
\* miss and the operation calls the model afresh; a lookup exactly cache_ttl
\* seconds after it is still a hit.
C4_ExpiryBoundary ==
    (/\ cache_enabled /\ last_call.valid
     /\ last_call.had /\ Truthy(last_call.prev_result)) =>
        /\ (last_call.time - last_call.prev_time > cache_ttl => last_call.called_model)
        /\ (last_call.time - last_call.prev_time = cache_ttl =>
                ~last_call.called_model /\ last_call.result = last_call.prev_result)

\* C5: no service returns a cached entry older than its TTL; RecommendationService
\* never returns a cached result when now - created_at > ttl.
C5_NoStaleRecommendation ==
    (rec_last.valid /\ rec_last.hit) => rec_last.time - rec_last.created <= cache_ttl

\* C6: extract_json_from_response recovers the object {"a":1} from the bare
\* JSON text, from the JSON in a json-tagged fence and from the JSON inside
\* prose, and returns the empty result for prose without JSON.
C6_RecoversObject ==
    extracted.called =>
        /\ (response \in {Str(BareJson), Str(FencedJson), Str(ProseJson)} =>
                extracted = Returned("object", BareJson))
        /\ (response = Str(PlainProse) => extracted = EmptyResult)

\* C7: extract_json_from_response never raises: for every input, also
\* malformed or unbalanced JSON and a value that is no string, it returns a
\* parsed JSON object or array, or the empty result.
C7_NeverRaises ==
    extracted.called => (~extracted.raised /\ extracted.kind \in {"object", "array"})
C7_Witness ==
    /\ extracted.called
    /\ response = Str(<<"[", "1", "}">>)
    /\ extracted = EmptyResult

\* The HTTP status the provider answered with, whichever library reports it.
IsHttpStatusError(e) == e.cls \in {"requests.HTTPError", "aiohttp.ClientResponseError"}
IsContentFilterBody(b) ==
    b.parsable /\ b.has_error /\ b.has_type /\ b.type = "content_filter"

\* C8: handle_error gives one kind per error, in this order: a transport
\* timeout gives Timeout with the configured timeout; a connection failure
\* gives Generic; HTTP 401 or 403 gives Authentication; HTTP 429 gives
\* RateLimit; any other HTTP status or exception gives Generic.
C8_ClassificationTable ==
    pc = "raised" =>
        IF IsTimeoutError(last_error)
        THEN KindOf(raised) = "Timeout" /\ raised.timeout = timeout
        ELSE IF IsConnectionError(last_error) THEN KindOf(raised) = "Generic"
        ELSE IF IsHttpStatusError(last_error) /\ last_error.status \in {401, 403}
        THEN KindOf(raised) = "Authentication"
        ELSE IF IsHttpStatusError(last_error) /\ last_error.status = 429
        THEN KindOf(raised) = "RateLimit"
        ELSE KindOf(raised) = "Generic"

\* C9: handle_error given an HTTP 400 whose JSON body has error.type =
\* "content_filter" raises ModelContentFilterError with the body's
\* error.message as filter_reason; any other 400 raises the Generic error.
C9_ContentFilter ==
    (pc = "raised" /\ IsHttpStatusError(last_error) /\ last_error.status = 400) =>
        IF IsContentFilterBody(last_error.body)
        THEN /\ raised.cls = "ModelContentFilterError"
             /\ last_error.body.has_message =>
                    raised.filter_reason = last_error.body.message
        ELSE raised.cls = "ModelAdapterError"

\* C10: handle_error given an HTTP 429 raises ModelRateLimitError whose
\* retry_after is the integer value of the retry-after header, and None when
\* the header is absent or not an integer.
C10_RetryAfter ==
    (pc = "raised" /\ IsHttpStatusError(last_error) /\ last_error.status = 429) =>
        /\ raised.cls = "ModelRateLimitError"
        /\ raised.retry_after =
              IF last_error.header.present /\ IsIntStr(last_error.header.value)
              THEN PyInt(IntOf(last_error.header.value))
              ELSE PyNone


\* The exception the sync path catches for the provider failure that the
\* async path reports as e.
SyncTwin(e) ==
    CASE e.cls = "asyncio.TimeoutError" -> [e EXCEPT !.cls = "requests.Timeout"]
      [] e.cls = "aiohttp.ClientConnectionError" -> [e EXCEPT !.cls = "requests.ConnectionError"]
      [] e.cls = "aiohttp.ClientResponseError" -> [e EXCEPT !.cls = "requests.HTTPError"]
      [] OTHER -> e

\* C11: for the same provider failure (status, headers, body, or a timeout) an
\* async operation raises the same error kind with the same kind-specific
\* data (timeout, retry_after, filter_reason) as the sync operation raises.
C11_AsyncRaisesAsSync ==
    (pc = "raised" /\ operation \in AsyncOperations) =>
        LET sync == HandleError(SyncTwin(last_error), operation, OrDefault(model_name))
        IN  /\ KindOf(raised) = KindOf(sync)
            /\ raised.timeout = sync.timeout
            /\ raised.retry_after = sync.retry_after
            /\ raised.filter_reason = sync.filter_reason

AdapterErrors == {"ModelAdapterError", "ModelTimeoutError", "ModelAuthenticationError",
                  "ModelRateLimitError", "ModelContentFilterError"}

\* C12: an exception raised inside an attempt leaves the operation only as one
\* of the five adapter error classes, and it does leave it: once the retries
\* are used up handle_error raises, it never returns to the loop.
C12_ClosedErrorSet ==
    /\ pc = "raised" => (raised.cls \in AdapterErrors /\ last_error # NoError)
    /\ pc \in {"attempt", "sleeping"} => retries <= max_retries
    /\ raised # NoRaised => pc \in {"raised", "idle"}
C12_Witness ==
    /\ pc = "raised"
    /\ operation = "generate_chat_completion"
    /\ last_error = IndexErr
    /\ raised.cls = "ModelAdapterError"


ChatOperations == {"generate_chat_completion", "async_generate_chat_completion"}

\* C15: a chat operation given messages that are not a non-empty list of
\* dicts with 'role' and 'content' (the empty list, no list, a malformed
\* entry) fails validation before any POST: no attempt, no sleep, no retry.
C15_InvalidMessagesRejected ==
    (/\ pc # "idle" /\ operation \in ChatOperations
     /\ messages \in {"empty", "not_a_list", "malformed"}) =>
        (pc = "rejected" /\ posts = 0 /\ sleeps = <<>>)

\* C16: when model_name is omitted, the body of every POST of the call names
\* the configured default model in its model field.
C16_DefaultModelInBody ==
    (posts > 0 /\ model_name = None) => payload.model = DEFAULT_MODEL

\* C17: in the async operations the timeout is a deadline for the whole call:
\* once it has elapsed since the call started, no further attempt is started
\* (a pending backoff sleep is cut short, it does not run to its end).
C17_AsyncDeadline ==
    (operation \in AsyncOperations /\ pc = "attempt") => elapsed < timeout

RECURSIVE SumSeq(_)
SumSeq(q) == IF q = <<>> THEN 0 ELSE Head(q) + SumSeq(Tail(q))

C19_GenerateTextTerminates ==
    /\ [](operation = "generate_text" =>
            /\ posts <= max_retries + 1
            /\ pc = "returned" =>
                  (/\ Len(sleeps) = posts - 1 /\ retries = posts - 1
                   /\ \E t \in Texts : result = <<t>>)
            /\ pc = "raised" => (posts = max_retries + 1 /\ Len(sleeps) = max_retries))
    /\ (operation = "generate_text" /\ pc \in {"attempt", "sleeping"})
          ~> (pc \in {"returned", "raised"})
C19_Witness ==
    /\ pc = "returned" /\ operation = "generate_text"
    /\ max_retries = 2
    /\ posts = 2 /\ Len(sleeps) = 1 /\ result = <<"t1">>


ValidTemperature(v) == v.t = "num" /\ 0 <= v.n /\ v.n <= TemperatureMax
ValidTopP(v) == v.t = "num" /\ 0 < v.n /\ v.n <= TopPMax

\* C13: prepare_parameters returns a temperature already in [0,2] and a top_p
\* already in (0,1] unchanged, and applying it to its own result gives that
\* result again.
C13_PrepareIdempotent ==
    /\ prepared # NotPrepared =>
          /\ ValidTemperature(parameters.temperature) =>
                prepared.temperature = parameters.temperature
          /\ ValidTopP(parameters.top_p) => prepared.top_p = parameters.top_p
    /\ prepared_again # NotPrepared => prepared_again = prepared
C13_Witness ==
    /\ prepared_again # NotPrepared
    /\ parameters = [temperature |-> Num(TemperatureMax), top_p |-> Num(1)]
    /\ prepared = parameters
    /\ prepared_again = parameters

\* C14: after prepare_parameters, for every numeric input, a temperature in
\* the result is in [0,2] and a top_p in the result is in (0,1]: values out of
\* range are clamped and the call does not fail.
C14_PreparedWithinBounds ==
    \A ps \in {prepared, prepared_again} :
        ps # NotPrepared =>
            /\ ps.temperature # Absent => ValidTemperature(ps.temperature)
            /\ ps.top_p # Absent => ValidTopP(ps.top_p)
C14_Witness ==
    /\ prepared # NotPrepared
    /\ parameters = [temperature |-> Num(TemperatureMax + 1), top_p |-> Num(0)]
    /\ prepared = [temperature |-> Num(TemperatureMax), top_p |-> Num(TopPFloor)]


\* C20: a batch operation over N inputs returns N results, result i being the
\* result of input i whatever the order of completion; an input whose
\* processing fails has the neutral empty result at its position and every
\* other input has its own result.
C20_BatchPositional ==
    batch_out.returned =>
        /\ Len(batch_out.list) = Len(batch_inputs)
        /\ \A i \in 1..Len(batch_inputs) :
              /\ batch_state[i] = "failed" => batch_out.list[i] = Neutral
              /\ batch_state[i] = "done" => batch_out.list[i] = Own(batch_inputs[i])



\* What a deterministic model answers for a tribe's data.
Backend(tribe_data) == IF tribe_data = "a" THEN "r1" ELSE "r2"

\* C21: caching is advisory. With a deterministic backend a request served
\* from the cache gets the result the backend gives for that request, which
\* is what the service with caching disabled returns.
C21_CachingIsAdvisory ==
    (rec_last.valid /\ rec_last.hit /\ rec_last.result = Backend(rec_last.owner)) =>
        rec_last.result = Backend(rec_last.tribe_data)

\* C22: a cache hit is served only to a request equal, in type, input data,
\* options and model name, to the request that stored the entry.
C22_HitOnlyForEqualRequest ==
    (rec_last.valid /\ rec_last.hit) => rec_last.owner = rec_last.tribe_data


\* C23: leaving `with OpenRouterAdapter(...)` calls close() of the sync
\* session exactly once, and leaving `async with` after the async session was
\* created calls its close() exactly once, however the body ended.
C23_ScopeClosesOnce ==
    adapter_class = "OpenRouterAdapter" =>
        /\ exit_rec.kind = "with" =>
              (exit_rec.session_calls = 1 /\ exit_rec.session = "closed")
        /\ (exit_rec.kind = "async_with" /\ exit_rec.had_async) =>
              (exit_rec.async_calls = 1 /\ exit_rec.async_session = "closed")
C23_Witness ==
    /\ adapter_class = "OpenRouterAdapter"
    /\ exit_rec.kind = "async_with" /\ exit_rec.exc = "error"
    /\ exit_rec.had_async /\ exit_rec.async_calls = 1

\* C24: close() and async_close() never raise, whatever was called before
\* and also before any request; a call of one that was already called since
\* the adapter was last used leaves the adapter as it was.
C24_CloseIsIdempotent ==
    close_rec.op \in ClosingOps =>
        (~close_rec.raised /\ (close_rec.repeat => ~close_rec.changed))
C24_Witness ==
    /\ adapter_class = "OpenRouterAdapter"
    /\ close_rec.op = "async_close" /\ close_rec.repeat
    /\ close_rec.done = ClosingOps
    /\ ensured = 0 /\ async_session = None /\ session = "closed"

\* C25: when the sync or the async scope of an OpenRouterAdapter has been
\* left, every session the adapter created is closed: the sync session, and
\* the async session if there is one.
C25_EverySessionClosedAtExit ==
    (adapter_class = "OpenRouterAdapter" /\ exit_rec.kind # "none") =>
        (exit_rec.session = "closed" /\ exit_rec.async_session \in {None, "closed"})

\* C26: the async session is None until the first async use, whatever sync
\* operations ran, and all async operations, also concurrent first ones,
\* create one session between them.
C26_OneLazyAsyncSession ==
    adapter_class = "OpenRouterAdapter" =>
        /\ ensured = 0 => (async_session = None /\ sessions_created = 0)
        /\ ensured > 0 => (async_session # None /\ sessions_created = 1)
C26_Witness ==
    /\ tasks[1] = "posting" /\ tasks[2] = "posting"
    /\ ensured = 2 /\ sessions_created = 1 /\ async_session = "open"

C28_ShapeProblemDegrades ==
    mm_result.called =>
        /\ ~mm_result.raised
        /\ \/ mm_result = EmptyDefault(mm_type)
           \/ ValidateMatchingResponse(mm_result, mm_type)
C28_Witness ==
    /\ mm_result.called /\ mm_type = "compatibility"
    /\ mm_reply.kind = "text" /\ mm_reply.value = Str(BareJson)
    /\ mm_result = EmptyResult

Expired(e, t) == e.present /\ t - e.timestamp > cache_ttl

\* C29: get_cached_result(k) deletes the entry of k exactly when it finds it
\* expired and changes nothing else in the cache; no step removes an entry
\* except a lookup that finds it expired and clear_cache.
C29_LazyLocalEviction ==
    /\ [](looked.valid =>
            /\ \A j \in Keys \ {looked.key} : looked.after[j] = looked.before[j]
            /\ IF Expired(looked.before[looked.key], looked.time)
               THEN looked.after[looked.key] = NoEntry /\ looked.value = None
               ELSE looked.after[looked.key] = looked.before[looked.key])
    /\ [][\A j \in Keys :
             (cache[j].present /\ ~cache'[j].present) =>
                 (Expired(cache[j], now) \/ cache' = EmptyCache)]_vars
C29_Witness ==
    /\ looked.valid
    /\ \E j \in Keys \ {looked.key} :
          Expired(looked.before[j], looked.time) /\ looked.after[j] = looked.before[j]
    /\ Expired(looked.before[looked.key], looked.time)
    /\ looked.after[looked.key] = NoEntry

\* the exception of the latest set_failure_mode call that gave one
RECURSIVE LastGiven(_)
LastGiven(calls) ==
    IF calls = <<>> THEN None
    ELSE IF calls[Len(calls)][2] # None THEN calls[Len(calls)][2]
    ELSE LastGiven(SubSeq(calls, 1, Len(calls) - 1))

\* C30: after set_failure_mode(True, e) every generate_* call of the mock
\* raises e and returns nothing; after set_failure_mode(False) the calls
\* return again; set_failure_mode(True) without an exception fails with the
\* exception given last.
C30_FailureMode ==
    (mock_last.op # "none" /\ mode_calls # <<>>) =>
        LET should_fail == mode_calls[Len(mode_calls)][1]
            e == LastGiven(mode_calls)
        IN  /\ (should_fail /\ e # None) =>
                  (mock_last.raised = e /\ ~mock_last.returned)
            /\ ~should_fail => (mock_last.returned /\ mock_last.raised = None)
C30_Witness ==
    /\ mode_calls = <<<<TRUE, "e1">>, <<FALSE, None>>, <<TRUE, None>>>>
    /\ mock_last.op = "async_generate_text"
    /\ mock_last.raised = "e1" /\ ~mock_last.returned

\* C31: once close() or async_close() has run on a MockModelAdapter, by a
\* call or by leaving a with / async with block, and no response has been set
\* since, the response table is empty and a generate_* call that returns
\* (the failure mode raises before the lookup) returns the default text for
\* its prompt, also for a prompt that had a predefined response.
C31_CloseClearsResponses ==
    close_rec.op \in ClosingOps =>
        /\ mock_responses = {}
        /\ mock_last.returned => mock_last.text = "default"
C31_Witness ==
    /\ exit_rec.kind = "async_with" /\ close_rec.op = "async_close"
    /\ close_rec.changed
    /\ mock_last.op = "generate_text" /\ mock_last.returned
    /\ mock_last.text = "default"

C33_AdapterErrorAbsorbed ==
    (/\ ms_result.entry # "none"
     /\ mm_reply.kind = "raise" /\ mm_reply.cls \in AdapterErrorClasses) =>
        /\ mm_result = EmptyDefault(mm_type)
        /\ ms_result.value = EmptyDefault(mm_type)
        /\ ms_result.handled = "none"
C33_Witness ==
    /\ ms_result.entry = "perform_matching" /\ mm_type = "compatibility"
    /\ mm_reply.kind = "raise" /\ mm_reply.cls = "ModelRateLimitError"
    /\ ms_result.value = EmptyResult /\ ms_result.handled = "none"

\* C34: in generate_text and async_generate_text a 2xx answer whose body has
\* no choices, or an empty choices list, is a failed attempt: it is never
\* returned from (no result, not the empty string), it counts as a retry and
\* is followed by the backoff sleep of its attempt number, and a call all of
\* whose max_retries + 1 attempts were answered so raises the Generic
\* ModelAdapterError.
C34_BodyWithoutChoicesIsFailure ==
    (operation \in TextOperations /\ pc \in {"attempt", "sleeping", "returned", "raised"}) =>
        /\ pc = "returned" => (answers.last = "choices" /\ result \in {<<t>> : t \in Texts})
        /\ answers.last \in {"empty_choices", "no_choices"} =>
              /\ pc # "returned" /\ result = NoResult
              /\ retries = posts /\ last_error = InvalidFormat
              /\ Len(sleeps) = (IF pc = "raised" THEN retries - 1 ELSE retries)
              /\ \A i \in 1..Len(sleeps) : sleeps[i] = retry_delay * i
        /\ (pc = "raised" /\ answers.only_bad) =>
              (posts = max_retries + 1 /\ KindOf(raised) = "Generic")
        /\ (answers.only_bad /\ posts > 0) => pc # "returned"
C34_Witness ==
    /\ operation = "async_generate_text" /\ pc = "raised"
    /\ max_retries = 2 /\ posts = 3 /\ answers.only_bad
    /\ answers.last = "empty_choices" /\ KindOf(raised) = "Generic"

\* C35: an OpenRouterAdapter creates at most one async session: async_close()
\* closes it and keeps the reference, so the reference is never None again,
\* and an async operation that reaches ensure_async_session after
\* async_close() gets no new session and posts on the closed one.
C35_OneAsyncSessionForLife ==
    /\ [](adapter_class = "OpenRouterAdapter" =>
            /\ sessions_created <= 1
            /\ sessions_created = 1 => async_session # None
            /\ \A i \in 1..MaxTasks :
                  tasks[i] = "posting_closed" =>
                      (async_session = "closed" /\ sessions_created = 1))
    /\ [][\A i \in 1..MaxTasks :
            (/\ adapter_class = "OpenRouterAdapter" /\ async_session = "closed"
             /\ tasks[i] = "started" /\ tasks'[i] # "started") =>
                /\ tasks'[i] = "posting_closed"
                /\ async_session' = "closed"
                /\ sessions_created' = sessions_created]_vars
C35_Witness ==
    /\ adapter_class = "OpenRouterAdapter"
    /\ tasks[1] = "posting_closed" /\ async_session = "closed"
    /\ sessions_created = 1 /\ ensured = 2

\* C36: for an assistant content that is a valid JSON array (of valid prompt
\* items, for generate_conversation_prompt), recommend_events and
\* generate_conversation_prompt return that array, with a MockModelAdapter
\* and with an OpenRouterAdapter alike.
C36_SameChatInterface ==
    LET v == JsonLoads(chat.content.text)
    IN  (/\ chat.op # "none" /\ v.ok /\ v.kind = "array"
         /\ (chat.op = "generate_conversation_prompt" => v.canon = PromptArray)) =>
            chat.outcome = Returned("array", v.canon)

\* C37: prepare_messages leaves its argument as it was: after the call the
\* caller's list holds the same messages with the same content.
C37_ArgumentUnmodified ==
    pm.called => pm.arg_after = pm.arg

\* the positions in the caller's list of the messages returned, in order
RECURSIVE IdsOf(_)
IdsOf(msgs) == IF msgs = <<>> THEN <<>> ELSE <<Head(msgs).id>> \o IdsOf(Tail(msgs))

\* C38: for a valid list whose system messages fit the budget, the contents
\* of the messages returned sum to at most int(0.9 * context_window) plus
\* one truncation note, the system messages are returned as they were, and
\* the other messages returned are in their original order.
C38_WithinBudget ==
    LET model == ModelOrDefault(pm.model)
        others == IdsOf(SelectSeq(pm.out, IsOther))
    IN  (pm.called /\ SumLen(SelectSeq(pm.arg, IsSystem)) <= Budget(model)) =>
            /\ SumLen(pm.out) <= Budget(model) + NoteLen
            /\ \A i \in 1..Len(pm.arg) :
                  IsSystem(pm.arg[i]) => \E j \in 1..Len(pm.out) : pm.out[j] = pm.arg[i]
            /\ \A i, j \in 1..Len(others) : i < j => others[i] < others[j]

\* the three counters of a type, summed
Counted(st) == st.count + st.cache_hits + st.errors

\* C39: for each recommendation type, count + cache_hits + errors is the
\* number of calls of that type that have returned; a call adds one to
\* exactly one of the three counters of its type and leaves the other types'
\* counters alone; a cache hit makes no model call (the model calls of a type
\* are its count plus its errors).
C39_StatsAccountForCalls ==
    /\ [](\A t \in RecTypes :
            /\ Counted(rec_stats[t]) = rec_done[t].calls
            /\ rec_stats[t].count + rec_stats[t].errors = rec_done[t].model_calls)
    /\ [][\A t \in RecTypes :
            IF rec_done'[t].calls = rec_done[t].calls + 1
            THEN /\ \E c \in {"count", "cache_hits", "errors"} :
                       rec_stats'[t] = [rec_stats[t] EXCEPT ![c] = @ + 1]
                 /\ rec_stats'[t].cache_hits # rec_stats[t].cache_hits =>
                       rec_done'[t].model_calls = rec_done[t].model_calls
            ELSE rec_stats'[t] = rec_stats[t]]_vars
C39_Witness ==
    /\ rec_stats["events"] = [count |-> 1, cache_hits |-> 1, errors |-> 1]
    /\ rec_done["events"] = [calls |-> 3, model_calls |-> 2]

====
